---- MODULE Spec2Model ----
(***************************************************************************)
(* A model of rvlox: the scanner (src/src/scanner.rs), the single-pass     *)
(* precedence-climbing compiler (src/src/compiler.rs), the chunk           *)
(* (src/src/common.rs), the values (src/src/value.rs) and the stack VM     *)
(* (src/src/vm.rs).                                                        *)
(*                                                                         *)
(* A source text is a sequence of one-character strings.  An Option<T> is  *)
(* a sequence of length 0 (None) or 1 (Some(x)).  An f64 is its sign s, its *)
(* significand m of at most 53 bits and its exponent e, the value being    *)
(* s * m * 2^e, or an infinity or NaN; zero keeps its sign.  Every result  *)
(* of the arithmetic and every parsed literal is rounded to the nearest    *)
(* f64, a tie to the even significand.                                     *)
(***************************************************************************)
EXTENDS Integers, Sequences, FiniteSets, TLC

None == <<>>
Some(x) == <<x>>

Last(s) == s[Len(s)]

Min(a, b) == IF a < b THEN a ELSE b

Max(a, b) == IF a > b THEN a ELSE b

(***************************************************************************)
(* Natural numbers of any size, for the 53-bit significand of an f64 and   *)
(* the products and quotients of two of them: a sequence of limbs below    *)
(* 2^15, the least significant first, without leading zero limbs.          *)
(***************************************************************************)
Base == 2 ^ 15

Limb(a, i) == IF i <= Len(a) THEN a[i] ELSE 0

RECURSIVE BTrim(_)
BTrim(a) ==
  IF a = <<>> THEN a
  ELSE IF a[Len(a)] = 0 THEN BTrim(SubSeq(a, 1, Len(a) - 1))
  ELSE a

RECURSIVE BFromNat(_)
BFromNat(k) == IF k = 0 THEN <<>> ELSE <<k % Base>> \o BFromNat(k \div Base)

RECURSIVE BAddFrom(_, _, _, _)
BAddFrom(a, b, i, c) ==
  IF i > Len(a) /\ i > Len(b) THEN (IF c = 0 THEN <<>> ELSE <<c>>)
  ELSE <<(Limb(a, i) + Limb(b, i) + c) % Base>>
         \o BAddFrom(a, b, i + 1, (Limb(a, i) + Limb(b, i) + c) \div Base)

BAdd(a, b) == BAddFrom(a, b, 1, 0)

\* a - b for a >= b.
RECURSIVE BSubFrom(_, _, _, _)
BSubFrom(a, b, i, c) ==
  IF i > Len(a) THEN <<>>
  ELSE IF a[i] - Limb(b, i) - c < 0
       THEN <<a[i] - Limb(b, i) - c + Base>> \o BSubFrom(a, b, i + 1, 1)
       ELSE <<a[i] - Limb(b, i) - c>> \o BSubFrom(a, b, i + 1, 0)

BSub(a, b) == BTrim(BSubFrom(a, b, 1, 0))

\* -1, 0 or 1 as a is below, equal to or above b, from limb i downwards.
RECURSIVE BCmpFrom(_, _, _)
BCmpFrom(a, b, i) ==
  IF i = 0 THEN 0
  ELSE IF a[i] < b[i] THEN -1
  ELSE IF a[i] > b[i] THEN 1
  ELSE BCmpFrom(a, b, i - 1)

BCmp(a, b) ==
  IF Len(a) < Len(b) THEN -1
  ELSE IF Len(a) > Len(b) THEN 1
  ELSE BCmpFrom(a, b, Len(a))

\* a * k for a limb k.
RECURSIVE BMulSmallFrom(_, _, _, _)
BMulSmallFrom(a, k, i, c) ==
  IF i > Len(a) THEN (IF c = 0 THEN <<>> ELSE <<c>>)
  ELSE <<(a[i] * k + c) % Base>> \o BMulSmallFrom(a, k, i + 1, (a[i] * k + c) \div Base)

BMulSmall(a, k) ==
  IF k = 0 THEN <<>> ELSE IF k = 1 THEN a ELSE BMulSmallFrom(a, k, 1, 0)

RECURSIVE BMul(_, _)
BMul(a, b) ==
  IF a = <<>> \/ b = <<>> THEN <<>>
  ELSE BAdd(BMulSmall(a, b[1]), BTrim(<<0>> \o BMul(a, Tail(b))))

\* floor(a / k) for a limb k > 0, from limb i downwards with remainder r.
RECURSIVE BDivSmallFrom(_, _, _, _)
BDivSmallFrom(a, k, i, r) ==
  IF i = 0 THEN <<>>
  ELSE BDivSmallFrom(a, k, i - 1, (r * Base + a[i]) % k) \o <<(r * Base + a[i]) \div k>>

\* a * 2^k and floor(a / 2^k).
BShl(a, k) ==
  IF a = <<>> THEN <<>>
  ELSE [i \in 1..(k \div 15) |-> 0] \o BMulSmall(a, 2 ^ (k % 15))

BShr(a, k) ==
  IF k \div 15 >= Len(a) THEN <<>>
  ELSE IF k % 15 = 0 THEN SubSeq(a, k \div 15 + 1, Len(a))
  ELSE BTrim(BDivSmallFrom(SubSeq(a, k \div 15 + 1, Len(a)), 2 ^ (k % 15),
                           Len(a) - k \div 15, 0))

\* Number of binary digits of a limb and of a number.
RECURSIVE BitLen(_)
BitLen(k) == IF k = 0 THEN 0 ELSE 1 + BitLen(k \div 2)

BBitLen(a) == IF a = <<>> THEN 0 ELSE 15 * (Len(a) - 1) + BitLen(a[Len(a)])

\* The quotient q with its next digit, the greatest with d * digit <= r, and
\* the rest of r, from an estimate qh of the digit that is not below it.
RECURSIVE BDigitFrom(_, _, _, _)
BDigitFrom(q, r, d, qh) ==
  IF BCmp(BMulSmall(d, qh), r) > 0 THEN BDigitFrom(q, r, d, qh - 1)
  ELSE [q |-> <<qh>> \o q, r |-> BSub(r, BMulSmall(d, qh))]

\* The next digit of a quotient, floor(r / d) for r < d * Base, where the
\* first limb of d is not below Base / 2: the estimate from the first limbs
\* is then at most 2 too great.
BDigit(q, r, d) ==
  IF BCmp(r, d) < 0 THEN [q |-> <<0>> \o q, r |-> r]
  ELSE BDigitFrom(q, r, d, Min(Base - 1,
                               (Limb(r, Len(d) + 1) * Base + r[Len(d)]) \div d[Len(d)]))

\* Long division by d, limb i of n and the limbs below it still to bring
\* down: st holds the quotient so far and what is left of the dividend.
\* At the end the remainder is scaled back by 2^k.
RECURSIVE BDivLoop(_, _, _, _, _)
BDivLoop(st, n, d, i, k) ==
  IF i = 0 THEN [q |-> BTrim(st.q), r |-> BShr(st.r, k)]
  ELSE BDivLoop(BDigit(st.q, BTrim(<<n[i]>> \o st.r), d), n, d, i - 1, k)

BDivScaled(n, d, k) == BDivLoop([q |-> <<>>, r |-> <<>>], n, d, Len(n), k)

\* Quotient and remainder of n by d > 0: both are scaled by a power of two
\* that brings the first limb of d to Base / 2 or above.
BDivMod(n, d) ==
  BDivScaled(BShl(n, 15 - BitLen(d[Len(d)])), BShl(d, 15 - BitLen(d[Len(d)])),
             15 - BitLen(d[Len(d)]))

(***************************************************************************)
(* value.rs: Value::Double(f64) and its arithmetic.                        *)
(***************************************************************************)
\* The significand of an f64 has 53 bits; the least exponent of its last bit
\* is -1074 and every finite value is below 2^1024.
MantissaBits == 53
MinExponent == -1074
MaxExponent == 1024

NaN == [k |-> "nan", s |-> 1, m |-> <<>>, e |-> 0]
Inf(s) == [k |-> "inf", s |-> s, m |-> <<>>, e |-> 0]
Zero(s) == [k |-> "finite", s |-> s, m |-> <<>>, e |-> MinExponent]

IsNaN(v) == v.k = "nan"
IsInf(v) == v.k = "inf"
IsZero(v) == v.k = "finite" /\ v.m = <<>>

\* The f64 s * m * 2^e for m of at most 53 bits, or 2^53, and e >= -1074, in
\* its one IEEE form: the significand has 53 bits or the exponent is -1074.
Normal(s, m, e) ==
  IF m = <<>> THEN Zero(s)
  ELSE IF BBitLen(m) + e > MaxExponent THEN Inf(s)
  ELSE IF BBitLen(m) > MantissaBits
       THEN [k |-> "finite", s |-> s, m |-> BShr(m, 1), e |-> e + 1]
  ELSE [k |-> "finite", s |-> s,
        m |-> BShl(m, Min(MantissaBits - BBitLen(m), e - MinExponent)),
        e |-> e - Min(MantissaBits - BBitLen(m), e - MinExponent)]

\* q * 2^(e - drop) plus a rest (sticky: the rest is not zero), rounded to the
\* nearest f64 with the last `drop` bits of q dropped, m being the bits kept;
\* a tie goes to the even significand.  The value is rounded up when twice
\* the dropped bits, one more for a rest or an odd m, exceed 2^drop.
RoundDropped(s, q, m, sticky, drop, e) ==
  IF BCmp(BAdd(BShl(BSub(q, BShl(m, drop)), 1),
               IF sticky \/ Limb(m, 1) % 2 = 1 THEN <<1>> ELSE <<>>),
          BShl(<<1>>, drop)) > 0
  THEN Normal(s, BAdd(m, <<1>>), e)
  ELSE Normal(s, m, e)

RoundQuotient(s, q, sticky, sh, drop) ==
  RoundDropped(s, q, BShr(q, drop), sticky, drop, sh + drop)

\* The f64 nearest to s * n * 2^e.
RoundScaled(s, n, e) ==
  IF n = <<>> THEN Zero(s)
  ELSE IF e < MinExponent \/ BBitLen(n) > MantissaBits
       THEN RoundQuotient(s, n, FALSE, e, Max(BBitLen(n) - MantissaBits, MinExponent - e))
       ELSE Normal(s, n, e)

\* The f64 nearest to s * (qr.q + rest) * 2^sh, where the rest, below 1, is
\* zero when the remainder qr.r is.
RoundRemainder(s, qr, sh) ==
  RoundQuotient(s, qr.q, qr.r # <<>>, sh,
                Max(BBitLen(qr.q) - MantissaBits, MinExponent - sh))

\* n / d * 2^e from the quotient floor(n / d / 2^sh) and its remainder.
RoundShifted(s, n, d, e, sh) ==
  RoundRemainder(s, BDivMod(IF sh < 0 THEN BShl(n, -sh) ELSE n,
                            IF sh > 0 THEN BShl(d, sh) ELSE d), sh + e)

\* The f64 nearest to s * n / d * 2^e (d > 0), ties to even: the quotient is
\* taken with at least three bits more than the significand keeps.
RoundRatio(s, n, d, e) ==
  IF n = <<>> THEN Zero(s)
  ELSE IF d = <<1>> THEN RoundScaled(s, n, e)
  ELSE RoundShifted(s, n, d, e,
                    Max(BBitLen(n) - BBitLen(d) - MantissaBits - 3, MinExponent - 2 - e))

\* The f64 nearest to s * n / d for natural numbers n and d > 0.
Finite(s, n, d) == RoundRatio(s, BFromNat(n), BFromNat(d), 0)

Double(k) == Finite(IF k < 0 THEN -1 ELSE 1, IF k < 0 THEN -k ELSE k, 1)

\* f64 unary minus: flips the sign (a NaN stays a NaN).
F64Neg(v) == IF IsNaN(v) THEN NaN ELSE [v EXCEPT !.s = -v.s]

\* The sum of two finite values whose significands a and b are scaled to the
\* common exponent e: exact, then rounded; x + (-x) is +0.
AddAligned(ls, a, rs, b, e) ==
  IF ls = rs THEN RoundScaled(ls, BAdd(a, b), e)
  ELSE IF BCmp(a, b) = 0 THEN Zero(1)
  ELSE IF BCmp(a, b) > 0 THEN RoundScaled(ls, BSub(a, b), e)
  ELSE RoundScaled(rs, BSub(b, a), e)

\* A finite operand of a sum whose other operand has the exponent e: a zero
\* is taken at that exponent, and a value more than 64 bits below it as one
\* unit 64 bits below, which rounds the sum the same way.
AddOperand(v, e) ==
  IF v.e >= e THEN v
  ELSE IF v.m = <<>> THEN [v EXCEPT !.e = e]
  ELSE IF e - v.e > 64 THEN [v EXCEPT !.m = <<1>>, !.e = e - 64]
  ELSE v

AddFinite(l, r) ==
  AddAligned(l.s, BShl(l.m, l.e - Min(l.e, r.e)),
             r.s, BShl(r.m, r.e - Min(l.e, r.e)), Min(l.e, r.e))

\* f64 `l + r`.
F64Add(l, r) ==
  IF IsNaN(l) \/ IsNaN(r) THEN NaN
  ELSE IF IsInf(l) /\ IsInf(r) THEN (IF l.s = r.s THEN l ELSE NaN)
  ELSE IF IsInf(l) THEN l
  ELSE IF IsInf(r) THEN r
  ELSE AddFinite(AddOperand(l, r.e), AddOperand(r, l.e))

\* f64 `l - r`.
F64Sub(l, r) == F64Add(l, F64Neg(r))

\* f64 `l * r`.
F64Mul(l, r) ==
  IF IsNaN(l) \/ IsNaN(r) THEN NaN
  ELSE IF (IsInf(l) /\ IsZero(r)) \/ (IsZero(l) /\ IsInf(r)) THEN NaN
  ELSE IF IsInf(l) \/ IsInf(r) THEN Inf(l.s * r.s)
  ELSE RoundScaled(l.s * r.s, BMul(l.m, r.m), l.e + r.e)

\* f64 `l / r`.
F64Div(l, r) ==
  IF IsNaN(l) \/ IsNaN(r) THEN NaN
  ELSE IF (IsInf(l) /\ IsInf(r)) \/ (IsZero(l) /\ IsZero(r)) THEN NaN
  ELSE IF IsInf(l) \/ IsZero(r) THEN Inf(l.s * r.s)
  ELSE IF IsInf(r) THEN Zero(l.s * r.s)
  ELSE RoundRatio(l.s * r.s, l.m, r.m, l.e - r.e)

\* Value::negate
negate(v) == F64Neg(v)

\* binary_operator!(self, add, -): the macro is instantiated with `-`.
add(l, r) == F64Sub(l, r)

\* binary_operator!(self, subtract, -)
subtract(l, r) == F64Sub(l, r)

\* binary_operator!(self, multiply, star)
multiply(l, r) == F64Mul(l, r)

\* binary_operator!(self, divide, /)
divide(l, r) == F64Div(l, r)

(***************************************************************************)
(* scanner.rs: tokens.                                                     *)
(***************************************************************************)
\* A TokenType: the variant's name and its payload (txt for Identifier and
\* String, num for Number, msg for Error; the other fields hold a default).
TType(kind) == [kind |-> kind, txt |-> <<>>, num |-> Double(0), msg |-> ""]
Identifier(txt) == [TType("Identifier") EXCEPT !.txt = txt]
String(txt) == [TType("String") EXCEPT !.txt = txt]
Number(num) == [TType("Number") EXCEPT !.num = num]
Error(msg) == [TType("Error") EXCEPT !.msg = msg]

Token(t_type, line) == [t_type |-> t_type, line |-> line]

\* f64 `l == r`: a NaN equals nothing, the two zeros are equal.
F64Eq(l, r) ==
  /\ ~IsNaN(l)
  /\ ~IsNaN(r)
  /\ (IsZero(l) /\ IsZero(r)) \/ l = r

\* #[derive(PartialEq)] of TokenType: the same variant with equal payloads.
TokenType_eq(a, b) ==
  /\ a.kind = b.kind
  /\ a.kind \in {"Identifier", "String"} => a.txt = b.txt
  /\ a.kind = "Number" => F64Eq(a.num, b.num)
  /\ a.kind = "Error" => a.msg = b.msg

\* #[derive(PartialEq)] of Token: every field is compared, t_type and line.
Token_eq(a, b) == TokenType_eq(a.t_type, b.t_type) /\ a.line = b.line

Digits == {"0", "1", "2", "3", "4", "5", "6", "7", "8", "9"}

LowerLetters ==
  {"a", "b", "c", "d", "e", "f", "g", "h", "i", "j", "k", "l", "m",
   "n", "o", "p", "q", "r", "s", "t", "u", "v", "w", "x", "y", "z"}

UpperLetters ==
  {"A", "B", "C", "D", "E", "F", "G", "H", "I", "J", "K", "L", "M",
   "N", "O", "P", "Q", "R", "S", "T", "U", "V", "W", "X", "Y", "Z"}

is_allowed_for_identifier(c) == c \in LowerLetters \cup UpperLetters \cup {"_"}

DigitVal(c) ==
  CASE c = "0" -> 0 [] c = "1" -> 1 [] c = "2" -> 2 [] c = "3" -> 3
    [] c = "4" -> 4 [] c = "5" -> 5 [] c = "6" -> 6 [] c = "7" -> 7
    [] c = "8" -> 8 [] c = "9" -> 9

RECURSIVE Pow10(_)
Pow10(k) == IF k = 0 THEN 1 ELSE 10 * Pow10(k - 1)

\* The digits of a lexeme read as one decimal integer, the `.` skipped.
RECURSIVE DigitsToNat(_, _)
DigitsToNat(lexeme, acc) ==
  IF lexeme = <<>> THEN acc
  ELSE IF lexeme[1] = "." THEN DigitsToNat(Tail(lexeme), acc)
  ELSE DigitsToNat(Tail(lexeme), 10 * acc + DigitVal(lexeme[1]))

\* Number of characters after the `.` of a lexeme (0 without a `.`).
RECURSIVE FracLen(_)
FracLen(lexeme) ==
  IF lexeme = <<>> THEN 0
  ELSE IF lexeme[1] = "." THEN Len(lexeme) - 1
  ELSE FracLen(Tail(lexeme))

\* num_lexeme.parse::<f64>() on a lexeme of the form digits[.digits]
ParseF64(lexeme) == Finite(1, DigitsToNat(lexeme, 0), Pow10(FracLen(lexeme)))

(***************************************************************************)
(* scanner.rs: the Scanner.  `start` and `current` count the characters    *)
(* already taken from the two Chars iterators.  An operation that returns  *)
(* a value and changes the scanner returns a record of both.               *)
(***************************************************************************)
Scanner_new ==
  [start |-> 0, current |-> 0, look_ahead |-> None, cur_len |-> 0, line |-> 1]

\* Chars::next / Peekable::peek at position i of src
CharAt(src, i) == IF i < Len(src) THEN Some(src[i + 1]) ELSE None

peek(src, sc) ==
  IF sc.look_ahead # None THEN sc.look_ahead ELSE CharAt(src, sc.current)

\* The scanner after peek_next has filled look_ahead from `current` (when
\* it was empty).
peek_next_fill(src, sc) ==
  IF sc.look_ahead # None THEN sc
  ELSE [sc EXCEPT !.look_ahead = CharAt(src, sc.current),
                  !.current = Min(sc.current + 1, Len(src))]

PeekNextResult(src, sc1) == [sc |-> sc1, c |-> CharAt(src, sc1.current)]

peek_next(src, sc) == PeekNextResult(src, peek_next_fill(src, sc))

Scanner_advance(src, sc) ==
  IF sc.look_ahead # None
  THEN [sc |-> [sc EXCEPT !.look_ahead = None, !.cur_len = sc.cur_len + 1],
        c |-> sc.look_ahead]
  ELSE IF sc.current < Len(src)
  THEN [sc |-> [sc EXCEPT !.current = sc.current + 1,
                          !.cur_len = sc.cur_len + 1],
        c |-> Some(src[sc.current + 1])]
  ELSE [sc |-> sc, c |-> None]

make_token(sc, t_type) == Token(t_type, sc.line)

error_token(sc, msg) == Token(Error(msg), sc.line)

\* A token and the scanner that made it.
Made(sc, t_type) == [sc |-> sc, tok |-> make_token(sc, t_type)]

scan_lexeme(src, sc) ==
  [sc |-> [sc EXCEPT !.start = sc.start + sc.cur_len, !.cur_len = 0],
   lexeme |-> SubSeq(src, sc.start + 1, sc.start + sc.cur_len)]

scan_str_lexeme(src, sc) ==
  [sc |-> [sc EXCEPT !.start = Min(sc.start + sc.cur_len, Len(src)),
                     !.cur_len = 0],
   lexeme |-> SubSeq(src, sc.start + 2, sc.start + sc.cur_len - 1)]

sync_start(src, sc) ==
  [sc EXCEPT !.start = Min(sc.start + sc.cur_len, Len(src)), !.cur_len = 0]

\* Faulty variant of next_matches: the character is taken even when it
\* does not match.
next_matches_taking(src, sc, c) ==
  IF peek(src, sc) = Some(c)
  THEN [sc |-> Scanner_advance(src, sc).sc, matched |-> TRUE]
  ELSE [sc |-> Scanner_advance(src, sc).sc, matched |-> FALSE]

next_matches(src, sc, c) ==
  IF peek(src, sc) = Some(c)
  THEN [sc |-> Scanner_advance(src, sc).sc, matched |-> TRUE]
  ELSE [sc |-> sc, matched |-> FALSE]

\* Faulty variant of TwoCharToken: the two token types are mixed up.
TwoCharToken_swapped(m, cur_type, possible_type) ==
  Made(m.sc, IF m.matched THEN cur_type ELSE possible_type)

TwoCharToken(m, cur_type, possible_type) ==
  Made(m.sc, IF m.matched THEN possible_type ELSE cur_type)

possible_two_char_token(src, sc, cur_type, char_to_match, possible_type) ==
  TwoCharToken(next_matches(src, sc, char_to_match), cur_type, possible_type)

\* Faulty variant of string_loop: newlines inside the string are not counted.
RECURSIVE string_loop_same_line(_, _)
string_loop_same_line(src, sc) ==
  IF peek(src, sc) = None \/ peek(src, sc) = Some("\"") THEN sc
  ELSE string_loop_same_line(src, Scanner_advance(src, sc).sc)

\* The loop of Scanner::string: up to the closing quote or the end of input.
RECURSIVE string_loop(_, _)
string_loop(src, sc) ==
  IF peek(src, sc) = None \/ peek(src, sc) = Some("\"") THEN sc
  ELSE string_loop(src,
         Scanner_advance(src, IF peek(src, sc) = Some("\n")
                              THEN [sc EXCEPT !.line = sc.line + 1]
                              ELSE sc).sc)

StringToken(l) == Made(l.sc, String(l.lexeme))

\* Scanner::string after its loop
string_end(src, sc1) ==
  IF peek(src, sc1) = None
  THEN [sc |-> sc1, tok |-> error_token(sc1, "Unterminated string")]
  ELSE StringToken(scan_str_lexeme(src, Scanner_advance(src, sc1).sc))

string(src, sc) == string_end(src, string_loop(src, sc))

RECURSIVE advance_while_digit(_, _)
advance_while_digit(src, sc) ==
  IF peek(src, sc) # None /\ peek(src, sc)[1] \in Digits
  THEN advance_while_digit(src, Scanner_advance(src, sc).sc)
  ELSE sc

\* Faulty variant of number_after_dot: the `.` is taken whatever follows it.
number_after_dot_taking(src, pn) ==
  advance_while_digit(src, Scanner_advance(src, pn.sc).sc)

\* Scanner::number once peek() is a `.`: pn is what peek_next returned.
number_after_dot(src, pn) ==
  IF pn.c # None /\ pn.c[1] \in Digits
  THEN advance_while_digit(src, Scanner_advance(src, pn.sc).sc)
  ELSE pn.sc

\* Scanner::number after the first digit run.
number_fraction(src, sc1) ==
  IF peek(src, sc1) = Some(".")
  THEN number_after_dot(src, peek_next(src, sc1))
  ELSE sc1

NumberToken(l) == Made(l.sc, Number(ParseF64(l.lexeme)))

number(src, sc) ==
  NumberToken(scan_lexeme(src, number_fraction(src, advance_while_digit(src, sc))))

\* Faulty variant of check_suffix: the rest of the lexeme need only start
\* with the suffix.
check_suffix_starts_with(from, lexeme, suffix, t_type) ==
  IF /\ Len(lexeme) >= from + Len(suffix)
     /\ SubSeq(lexeme, from + 1, from + Len(suffix)) = suffix
  THEN Some(t_type) ELSE None

check_suffix(from, lexeme, suffix, t_type) ==
  IF SubSeq(lexeme, from + 1, Len(lexeme)) = suffix
  THEN Some(t_type) ELSE None

check_if_keyword(lexeme) ==
  CASE lexeme[1] = "a" -> check_suffix(1, lexeme, <<"n", "d">>, TType("And"))
    [] lexeme[1] = "c" -> check_suffix(1, lexeme, <<"l", "a", "s", "s">>, TType("Class"))
    [] lexeme[1] = "e" -> check_suffix(1, lexeme, <<"l", "s", "e">>, TType("Else"))
    [] lexeme[1] = "i" -> check_suffix(1, lexeme, <<"f">>, TType("If"))
    [] lexeme[1] = "n" -> check_suffix(1, lexeme, <<"i", "l">>, TType("Nil"))
    [] lexeme[1] = "o" -> check_suffix(1, lexeme, <<"r">>, TType("Or"))
    [] lexeme[1] = "p" -> check_suffix(1, lexeme, <<"r", "i", "n", "t">>, TType("Print"))
    [] lexeme[1] = "r" -> check_suffix(1, lexeme, <<"e", "t", "u", "r", "n">>, TType("Return"))
    [] lexeme[1] = "s" -> check_suffix(1, lexeme, <<"u", "p", "e", "r">>, TType("Super"))
    [] lexeme[1] = "v" -> check_suffix(1, lexeme, <<"a", "r">>, TType("Var"))
    [] lexeme[1] = "w" -> check_suffix(1, lexeme, <<"h", "i", "l", "e">>, TType("While"))
    [] lexeme[1] = "t" ->
         IF Len(lexeme) > 1
         THEN CASE lexeme[2] = "h" -> check_suffix(2, lexeme, <<"i", "s">>, TType("This"))
                [] lexeme[2] = "r" -> check_suffix(2, lexeme, <<"u", "e">>, TType("True"))
                [] OTHER -> None
         ELSE None
    [] lexeme[1] = "f" ->
         IF Len(lexeme) > 1
         THEN CASE lexeme[2] = "a" -> check_suffix(2, lexeme, <<"l", "s", "e">>, TType("False"))
                [] lexeme[2] = "o" -> check_suffix(2, lexeme, <<"r">>, TType("For"))
                [] lexeme[2] = "u" -> check_suffix(2, lexeme, <<"n">>, TType("Fun"))
                [] OTHER -> None
         ELSE None
    [] OTHER -> None

KeywordOrIdentifier(lexeme, keyword) ==
  IF keyword # None THEN keyword[1] ELSE Identifier(lexeme)

KeywordToken(l) == Made(l.sc, KeywordOrIdentifier(l.lexeme, check_if_keyword(l.lexeme)))

keyword_or_identifier(src, sc) == KeywordToken(scan_lexeme(src, sc))

RECURSIVE identifier_loop(_, _)
identifier_loop(src, sc) ==
  IF peek(src, sc) # None /\ is_allowed_for_identifier(peek(src, sc)[1])
  THEN identifier_loop(src, Scanner_advance(src, sc).sc)
  ELSE sc

identifier(src, sc) == keyword_or_identifier(src, identifier_loop(src, sc))

match_char(src, sc, c) ==
  CASE c = "(" -> Made(sc, TType("LeftParen"))
    [] c = ")" -> Made(sc, TType("RightParen"))
    [] c = "{" -> Made(sc, TType("LeftBrace"))
    [] c = "}" -> Made(sc, TType("RightBrace"))
    [] c = ";" -> Made(sc, TType("Semicolon"))
    [] c = "," -> Made(sc, TType("Comma"))
    [] c = "." -> Made(sc, TType("Dot"))
    [] c = "-" -> Made(sc, TType("Minus"))
    [] c = "+" -> Made(sc, TType("Plus"))
    [] c = "/" -> Made(sc, TType("Slash"))
    [] c = "*" -> Made(sc, TType("Star"))
    [] c = "!" -> possible_two_char_token(src, sc, TType("Bang"), "=", TType("BangEqual"))
    [] c = "=" -> possible_two_char_token(src, sc, TType("Equal"), "=", TType("EqualEqual"))
    [] c = ">" -> possible_two_char_token(src, sc, TType("Greater"), "=", TType("GreaterEqual"))
    [] c = "<" -> possible_two_char_token(src, sc, TType("Less"), "=", TType("LessEqual"))
    [] c = "\"" -> string(src, sc)
    [] c \in Digits -> number(src, sc)
    [] is_allowed_for_identifier(c) -> identifier(src, sc)
    [] OTHER -> Made(sc, Error("Unexpected character"))

\* Faulty variant of comment_loop: the newline that ends the comment is
\* taken with it, uncounted.
RECURSIVE comment_loop_to_next_line(_, _)
comment_loop_to_next_line(src, sc) ==
  IF peek(src, sc) = None THEN sc
  ELSE IF peek(src, sc) = Some("\n") THEN Scanner_advance(src, sc).sc
  ELSE comment_loop_to_next_line(src, Scanner_advance(src, sc).sc)

\* The loop of skip_if_comment: up to (not including) the newline.
RECURSIVE comment_loop(_, _)
comment_loop(src, sc) ==
  IF peek(src, sc) = None \/ peek(src, sc) = Some("\n") THEN sc
  ELSE comment_loop(src, Scanner_advance(src, sc).sc)

\* skip_if_comment once peek_next has returned pn.
CommentSkipped(src, pn) ==
  IF pn.c = Some("/")
  THEN [sc |-> comment_loop(src, pn.sc), skipped |-> TRUE]
  ELSE [sc |-> pn.sc, skipped |-> FALSE]

skip_if_comment(src, sc) == CommentSkipped(src, peek_next(src, sc))

RECURSIVE skip_loop(_, _)
\* The `/` arm of skip_whitespaces: go on after a comment, stop otherwise.
AfterSlash(src, r) == IF r.skipped THEN skip_loop(src, r.sc) ELSE r.sc

\* The loop of skip_whitespaces.
skip_loop(src, sc) ==
  IF peek(src, sc) = None THEN sc
  ELSE IF peek(src, sc)[1] \in {" ", "\r", "\t"}
       THEN skip_loop(src, Scanner_advance(src, sc).sc)
  ELSE IF peek(src, sc)[1] = "\n"
       THEN skip_loop(src, Scanner_advance(src, [sc EXCEPT !.line = sc.line + 1]).sc)
  ELSE IF peek(src, sc)[1] = "/"
       THEN AfterSlash(src, skip_if_comment(src, sc))
  ELSE sc

skip_whitespaces(src, sc) == sync_start(src, skip_loop(src, sc))

SomeToken(r) == [sc |-> r.sc, tok |-> Some(r.tok)]

\* Faulty variant of NextFrom: at the end of input the scanner goes back to
\* the start of the source.
NextFrom_rewind(src, a) ==
  IF a.c = None THEN [sc |-> Scanner_new, tok |-> None]
  ELSE SomeToken(match_char(src, a.sc, a.c[1]))

\* Iterator::next once the first character, a.c, was taken.
NextFrom(src, a) ==
  IF a.c = None THEN [sc |-> a.sc, tok |-> None]
  ELSE SomeToken(match_char(src, a.sc, a.c[1]))

\* Iterator::next for Scanner: the next token (None at the end of input).
Scanner_next(src, sc) ==
  NextFrom(src, Scanner_advance(src, skip_whitespaces(src, sc)))

\* All the tokens of a source, as repeated calls of next return them.
RECURSIVE ScanFrom(_, _)
ScanRest(src, r) ==
  IF r.tok = None THEN <<>> ELSE <<r.tok[1]>> \o ScanFrom(src, r.sc)

ScanFrom(src, sc) == ScanRest(src, Scanner_next(src, sc))

ScanAll(src) == ScanFrom(src, Scanner_new)

(***************************************************************************)
(* common.rs: instructions and the chunk.                                  *)
(***************************************************************************)
Instruction(op) == [op |-> op, arg |-> 0]
Constant(i) == [op |-> "Constant", arg |-> i]

InstructionWithLine(ins, line) == [ins |-> ins, line |-> line]

Chunk_new == [instructions |-> <<>>, constants |-> <<>>]

add_instruction(ch, oc, line) ==
  [ch EXCEPT !.instructions = Append(ch.instructions, InstructionWithLine(oc, line))]

\* Faulty variant of add_constant_index: len() after the push, without - 1.
add_constant_index_len(ch) == Len(ch.constants) + 1

\* add_constant returns the index of the value it pushed: len() - 1.
add_constant_index(ch) == Len(ch.constants)

add_constant(ch, v) ==
  [chunk |-> [ch EXCEPT !.constants = Append(ch.constants, v)],
   index |-> add_constant_index(ch)]

\* Chunk::disassemble prints one line per instruction: its index and itself.
disassemble(ch) ==
  [i \in 1..Len(ch.instructions) |-> [index |-> i - 1, inc |-> ch.instructions[i]]]

\* Faulty variant of after_disassemble: the instructions are drained while
\* they are printed.
after_disassemble_drained(ch) == [ch EXCEPT !.instructions = <<>>]

\* The chunk once disassemble has returned: it takes &self and goes through
\* instructions.iter(), which leaves the chunk as it was.
after_disassemble(ch) == ch

(***************************************************************************)
(* compiler.rs: precedences.                                               *)
(***************************************************************************)
\* enum Precedence, in declaration order (the order derive(PartialOrd) uses)
PrecedenceOrder ==
  <<"None", "Assignment", "Or", "And", "Equality", "Comparison",
    "Term", "Factor", "Unary", "Call", "Primary">>

PrecRank(p) == CHOOSE i \in 1..Len(PrecedenceOrder) : PrecedenceOrder[i] = p

PrecLess(a, b) == PrecRank(a) < PrecRank(b)

Precedence_next(p) ==
  CASE p = "None" -> "Assignment"
    [] p = "Assignment" -> "Or"
    [] p = "Or" -> "And"
    [] p = "And" -> "Equality"
    [] p = "Equality" -> "Comparison"
    [] p = "Comparison" -> "Term"
    [] p = "Term" -> "Factor"
    [] p = "Factor" -> "Unary"
    [] p = "Unary" -> "Call"
    [] p = "Call" -> "Primary"
    [] p = "Primary" -> "Primary"

\* Faulty variant of precedence: * and / bind no tighter than + and -.
precedence_flat(t_type) ==
  CASE t_type.kind \in {"LeftParen", "Dot"} -> "Call"
    [] t_type.kind \in {"Minus", "Plus", "Slash", "Star"} -> "Term"
    [] t_type.kind \in {"BangEqual", "EqualEqual"} -> "Equality"
    [] t_type.kind \in {"Greater", "GreaterEqual", "Less", "LessEqual"} -> "Comparison"
    [] t_type.kind = "And" -> "And"
    [] t_type.kind = "Or" -> "Or"
    [] OTHER -> "None"

\* impl ParseRule for TokenType
precedence(t_type) ==
  CASE t_type.kind \in {"LeftParen", "Dot"} -> "Call"
    [] t_type.kind \in {"Minus", "Plus"} -> "Term"
    [] t_type.kind \in {"Slash", "Star"} -> "Factor"
    [] t_type.kind \in {"BangEqual", "EqualEqual"} -> "Equality"
    [] t_type.kind \in {"Greater", "GreaterEqual", "Less", "LessEqual"} -> "Comparison"
    [] t_type.kind = "And" -> "And"
    [] t_type.kind = "Or" -> "Or"
    [] OTHER -> "None"

(***************************************************************************)
(* compiler.rs: the Compiler.  A compiler value is the record of the       *)
(* struct's fields except the chunk, which is the variable `chunk`.        *)
(***************************************************************************)
ErrorAtToken(token, msg) == [location |-> Some(token), msg |-> msg]
ErrorAtTheEnd(msg) == [location |-> None, msg |-> msg]

\* Faulty variant of error: the error is recorded without entering panic
\* mode.
error_without_panic_mode(c, error_msg, token) ==
  IF c.panic_mode THEN c
  ELSE [c EXCEPT !.errors = Append(c.errors, ErrorAtToken(token, error_msg))]

\* Compiler::error
error(c, error_msg, token) ==
  IF c.panic_mode THEN c
  ELSE [c EXCEPT !.panic_mode = TRUE,
                 !.errors = Append(c.errors, ErrorAtToken(token, error_msg))]

\* Compiler::error_at_the_end
error_at_the_end(c, error_msg) ==
  IF c.panic_mode THEN c
  ELSE [c EXCEPT !.panic_mode = TRUE,
                 !.errors = Append(c.errors, ErrorAtTheEnd(error_msg))]

\* The loop of Compiler::advance: pull tokens, reporting and skipping Error
\* tokens, until a token that is no Error or the end of input.
RECURSIVE advance_loop(_, _)
\* One turn of the loop, r being what scanner.next() returned.
AdvanceGot(src, c, r) ==
  IF r.tok # None /\ r.tok[1].t_type.kind = "Error"
  THEN advance_loop(src, error([c EXCEPT !.scanner = r.sc, !.current = r.tok],
                               r.tok[1].t_type.msg, r.tok[1]))
  ELSE [c EXCEPT !.scanner = r.sc, !.current = r.tok]

advance_loop(src, c) == AdvanceGot(src, c, Scanner_next(src, c.scanner))

\* Faulty variant of Compiler_advance: last_token_line is left as it was.
Compiler_advance_keeping_line(src, c) ==
  advance_loop(src, [c EXCEPT !.previous = c.current])

\* Compiler::advance
Compiler_advance(src, c) ==
  advance_loop(src,
    [c EXCEPT !.previous = c.current,
              !.last_token_line = IF c.current # None THEN c.current[1].line
                                  ELSE c.last_token_line])

\* The Compiler value built from the scanner's first answer.
NewCompiler(r) ==
  [scanner |-> r.sc, current |-> r.tok, previous |-> None, errors |-> <<>>,
   panic_mode |-> FALSE, last_token_line |-> 0]

\* Compiler::new: the first token comes straight from the scanner.
Compiler_new(src) == NewCompiler(Scanner_next(src, Scanner_new))

\* Faulty variant of consume: the expected token is not advanced over.
consume_without_advance(src, c, t_type, error_msg) ==
  IF c.current # None
  THEN IF TokenType_eq(c.current[1].t_type, t_type)
       THEN c
       ELSE error(c, error_msg, c.current[1])
  ELSE error_at_the_end(c, error_msg)

\* Faulty variant of consume: the token that is not the expected one is
\* reported and then advanced over.
consume_skipping(src, c, t_type, error_msg) ==
  IF c.current # None
  THEN IF TokenType_eq(c.current[1].t_type, t_type)
       THEN Compiler_advance(src, c)
       ELSE Compiler_advance(src, error(c, error_msg, c.current[1]))
  ELSE error_at_the_end(c, error_msg)

\* Compiler::consume: `current.t_type == t_type` is the derived equality of
\* TokenType.
consume(src, c, t_type, error_msg) ==
  IF c.current # None
  THEN IF TokenType_eq(c.current[1].t_type, t_type)
       THEN Compiler_advance(src, c)
       ELSE error(c, error_msg, c.current[1])
  ELSE error_at_the_end(c, error_msg)

\* Compiler::emit_instruction
emit_instruction(ch, instruction, token) ==
  add_instruction(ch, instruction, token.line)

\* Faulty variant of emit_instruction_for_last_token: the instruction gets
\* the line the scanner has reached, not the line of the last token.
emit_instruction_at_scanner_line(ch, c, instruction) ==
  add_instruction(ch, instruction, c.scanner.line)

\* Compiler::emit_instruction_for_last_token
emit_instruction_for_last_token(ch, c, instruction) ==
  add_instruction(ch, instruction, c.last_token_line)

\* Compiler::number
Compiler_number(ch, number_val, token) ==
  emit_instruction(add_constant(ch, number_val).chunk,
                   Constant(add_constant(ch, number_val).index), token)

\* The instruction Compiler::binary emits for its operator token.
BinaryInstruction(op_type) ==
  CASE op_type.kind = "Plus" -> Instruction("Add")
    [] op_type.kind = "Minus" -> Instruction("Subtract")
    [] op_type.kind = "Star" -> Instruction("Multiply")
    [] op_type.kind = "Slash" -> Instruction("Divide")

\* Faulty variant of BinaryOperandPrecedence: the operand is parsed at the
\* operator's own precedence, without next().
BinaryOperandPrecedence_own(op_type) == precedence(op_type)

\* The precedence Compiler::binary parses its right operand at.
BinaryOperandPrecedence(op_type) == Precedence_next(precedence(op_type))

\* The precedence Compiler::expression parses at.
ExpressionPrecedence == "Assignment"

(***************************************************************************)
(* The sources the model compiles.                                         *)
(***************************************************************************)
\* Longest source of the exhaustive family (every text over SoupChars).
MaxSrcLen == 3

\* Most operators of a source of the family literal (operator literal)*.
MaxOps == 3

\* Deepest nesting of the family of generated well-formed expressions.
MaxDepth == 2

\* Most calls of VM::interpret on one VM value.
MaxCalls == 2

\* Most calls of Chunk::disassemble a holder of the chunk makes.
MaxDumps == 2

SoupChars == {"1", "+", "-", "*", "/", "(", ")", ".", "=", "@", "\n"}

SoupSources == UNION {[1..n -> SoupChars] : n \in 0..MaxSrcLen}

BinaryOps == {"+", "-", "*", "/"}

\* The literals of the sources `a op b`.
BinLits == {<<"0">>, <<"1">>, <<"2">>, <<"3">>, <<"1", "0">>, <<"1", ".", "5">>}

BinSources == {a \o <<" ", op, " ">> \o b : a \in BinLits, op \in BinaryOps, b \in BinLits}

\* The literal at each position of a chain, in two spellings.
ChainLits ==
  {<< <<"1">>, <<"2">>, <<"3">>, <<"4">>, <<"5">>, <<"6">> >>,
   << <<"2", ".", "5">>, <<"1", "0">>, <<"0">>, <<"7">>, <<"1">>, <<"0", ".", "2", "5">> >>}

\* The sources lits[1] op lits[2] op ... with k operators.
RECURSIVE Chains(_, _)
Chains(lits, k) ==
  IF k = 0 THEN {lits[1]}
  ELSE {c \o <<op>> \o lits[k + 1] : c \in Chains(lits, k - 1), op \in BinaryOps}

ChainSources == UNION {Chains(lits, k) : lits \in ChainLits, k \in 0..MaxOps}

\* Well-formed expressions with parentheses, by nesting depth.
RECURSIVE Grouped(_)
Grouped(d) ==
  IF d = 0 THEN {<<"1">>}
  ELSE LET G == Grouped(d - 1)
       IN G \cup {<<"(">> \o e \o <<")">> : e \in G}
            \cup {e1 \o <<op>> \o e2 : e1 \in G, op \in {"-", "*"}, e2 \in G}

GroupedSources == Grouped(MaxDepth)

\* The characters of a text given as a sequence of words of one character
\* each is the text itself; the sources of the repository's tests:
FixedSources ==
  {<<"1", " ", "-", " ", "2", " ", "*", " ", "3">>,
   <<"1", " ", "+", " ", "4", " ", "/", " ", "2">>,
   <<"2", " ", "*", " ", "3", " ", "+", " ", "4", " ", "/", " ", "5">>,
   <<"2", "1", ".", "3", " ", "-", " ", "2", "3", ".", "1", " ", "-", " ",
     "3", ".", "3", "2", "3">>,
   <<"(", "1", " ", "+", " ", "2", ")", " ", "*", " ", "(", "3", " ", "-", " ", "4", ")">>,
   <<"(", "(", "(", "1", " ", "+", " ", "3", ")", " ", "*", " ", "4", ")", " ",
     "+", " ", "2", ")", " ", "*", " ", "5">>,
   <<"-", "1", " ", "+", " ", "2">>,
   <<"1", "\n", "+", "\n", "2", "\n">>,
   <<"-", "\n", "1">>,
   <<"1", " ", "o", "r", " ", "2">>,
   <<"1", " ", "<", " ", "2">>}

\* The operands of the sources with a unary minus.
UnaryOperands == {<<"1">>, <<"(", "2", ")">>, <<"-", "3">>}

\* a op b and -a op b
UnarySources ==
  {pre \o a \o <<op>> \o b :
     pre \in {<<>>, <<"-">>}, a \in UnaryOperands, op \in BinaryOps, b \in UnaryOperands}

\* A source of one-character tokens with every token on a line of its own.
RECURSIVE Spread(_)
Spread(src) == IF src = <<>> THEN <<>> ELSE <<src[1], "\n">> \o Spread(Tail(src))

SpreadSources == {Spread(src) : src \in UnarySources}

Sources ==
  SoupSources \cup BinSources \cup ChainSources \cup GroupedSources \cup FixedSources
              \cup UnarySources \cup SpreadSources

(***************************************************************************)
(* The state.                                                              *)
(***************************************************************************)
VARIABLES
  source,      \* the source text handed to compile_to_chunk
  status,      \* "start", "compiling", "compiled" (the chunk was returned),
               \* "panicked" (a panic! unwound the compilation)
  compiler,    \* the Compiler struct (without its chunk)
  chunk,       \* the Chunk the compiler writes and the VM reads
  frames,      \* the call stack of the compiler's recursive methods
  consumed,    \* history: the tokens that became `previous`, in order
  vm,          \* the VM struct: ip and stack
  vm_status,   \* "idle", "running", or how the last interpret call ended
  calls,       \* number of interpret calls made on the VM
  printed,     \* what the Return instructions printed, in order
  outcome,     \* what interpret_source returned (None while it has not)
  dump,        \* what compile's disassemble printed (None before)
  scanner,     \* the Scanner a caller iterates by itself (as the tests do)
  returned,    \* history: what the calls of next on `scanner` returned
  dumps        \* history: what the caller's calls of disassemble printed

vars == <<source, status, compiler, chunk, frames, consumed, vm, vm_status,
          calls, printed, outcome, dump, scanner, returned, dumps>>

NoToken == Token(TType("None"), 0)

Frame(fn, prec, token) == [fn |-> fn, precedence |-> prec, token |-> token]

\* VM::new
VM_new == [ip |-> 0, stack |-> <<>>]

TypeOK ==
  /\ status \in {"start", "compiling", "compiled", "panicked"}
  /\ vm_status \in {"idle", "running", "Ok", "RuntimeError", "panicked"}
  /\ calls \in 0..MaxCalls

Init ==
  /\ source \in Sources
  /\ status = "start"
  /\ compiler = [scanner |-> Scanner_new, current |-> None, previous |-> None,
                 errors |-> <<>>, panic_mode |-> FALSE, last_token_line |-> 0]
  /\ chunk = Chunk_new
  /\ frames = <<>>
  /\ consumed = <<>>
  /\ vm = VM_new
  /\ vm_status = "idle"
  /\ calls = 0
  /\ printed = <<>>
  /\ outcome = None
  /\ dump = None
  /\ scanner = Scanner_new
  /\ returned = <<>>
  /\ dumps = <<>>

vm_vars == <<vm, vm_status, calls, printed>>
io_vars == <<outcome, dump>>
scan_vars == <<scanner, returned>>
compile_vars == <<status, compiler, chunk, frames, consumed>>

Top == frames[Len(frames)]
Pop == SubSeq(frames, 1, Len(frames) - 1)

\* The tokens an advance made `previous` are appended to the history.
Consumed(c) == IF c.previous # None THEN Append(consumed, c.previous[1]) ELSE consumed

(***************************************************************************)
(* compile_to_chunk, one action per step of the recursive descent.         *)
(***************************************************************************)
\* compile_to_chunk up to the call of expression(): Scanner::new,
\* Chunk::new, Compiler::new.
compile_to_chunk ==
  /\ status = "start"
  /\ status' = "compiling"
  /\ compiler' = Compiler_new(source)
  /\ chunk' = Chunk_new
  /\ frames' = <<Frame("compile_to_chunk", "None", NoToken),
                 Frame("parse_precedence", ExpressionPrecedence, NoToken)>>
  /\ UNCHANGED <<source, consumed, vm_vars, io_vars, scan_vars, dumps>>

\* What prefix_rule does to the chunk for a Number token.
PrefixChunk(ch, token) ==
  IF token.t_type.kind = "Number"
  THEN Compiler_number(ch, token.t_type.num, token)
  ELSE ch

\* Faulty variant of PrefixError: a token with no prefix rule is passed
\* over in silence.
PrefixError_silent(c, token) == c

\* What prefix_rule does to the compiler for a token with no prefix rule.
PrefixError(c, token) ==
  IF token.t_type.kind \in {"LeftParen", "Minus", "Number"} THEN c
  ELSE error(c, "Expect expression", token)

\* The frames prefix_rule pushes: grouping and unary call expression().
PrefixFrames(token) ==
  CASE token.t_type.kind = "LeftParen" ->
         <<Frame("grouping", "None", NoToken),
           Frame("parse_precedence", ExpressionPrecedence, NoToken)>>
    [] token.t_type.kind = "Minus" ->
         <<Frame("unary", "None", token),
           Frame("parse_precedence", ExpressionPrecedence, NoToken)>>
    [] OTHER -> <<>>

\* parse_precedence after its call of advance, which left the compiler c1.
AfterFirstAdvance(c1) ==
  /\ consumed' = Consumed(c1)
  /\ IF c1.previous = None
     THEN /\ compiler' = c1
          /\ chunk' = chunk
          /\ frames' = Pop
     ELSE /\ compiler' = PrefixError(c1, c1.previous[1])
          /\ chunk' = PrefixChunk(chunk, c1.previous[1])
          /\ frames' = Pop \o <<Frame("parse_precedence_loop", Top.precedence, NoToken)>>
                           \o PrefixFrames(c1.previous[1])

\* parse_precedence from its entry to the call made by prefix_rule (or, for
\* a number or an error, to the head of the while loop).
parse_precedence ==
  /\ status = "compiling"
  /\ Top.fn = "parse_precedence"
  /\ AfterFirstAdvance(Compiler_advance(source, compiler))
  /\ UNCHANGED <<source, status, vm_vars, io_vars, scan_vars, dumps>>

\* Whether the while loop of parse_precedence leaves at its head.
LoopExits(c, prec) ==
  c.current = None \/ PrecLess(precedence(c.current[1].t_type), prec)

\* Whether infix_rule has a rule for the token (it panics otherwise).
HasInfixRule(token) == token.t_type.kind \in {"Minus", "Plus", "Star", "Slash"}

\* The while loop of parse_precedence after its call of advance, which left
\* the compiler c1: infix_rule calls binary or panics.
AfterLoopAdvance(c1) ==
  /\ compiler' = c1
  /\ consumed' = Consumed(c1)
  /\ IF HasInfixRule(c1.previous[1])
     THEN /\ frames' = frames \o
               <<Frame("binary", "None", c1.previous[1]),
                 Frame("parse_precedence",
                       BinaryOperandPrecedence(c1.previous[1].t_type), NoToken)>>
          /\ status' = status
     ELSE /\ frames' = frames
          /\ status' = "panicked"

\* One turn of the while loop of parse_precedence: leave, or advance and
\* dispatch to infix_rule.
parse_precedence_loop ==
  /\ status = "compiling"
  /\ Top.fn = "parse_precedence_loop"
  /\ IF LoopExits(compiler, Top.precedence)
     THEN /\ frames' = Pop
          /\ UNCHANGED <<compiler, consumed, status>>
     ELSE AfterLoopAdvance(Compiler_advance(source, compiler))
  /\ UNCHANGED <<source, chunk, vm_vars, io_vars, scan_vars, dumps>>

\* Compiler::binary after its operand was parsed.
binary ==
  /\ status = "compiling"
  /\ Top.fn = "binary"
  /\ chunk' = emit_instruction_for_last_token(chunk, compiler,
                                              BinaryInstruction(Top.token.t_type))
  /\ frames' = Pop
  /\ UNCHANGED <<source, status, compiler, consumed, vm_vars, io_vars, scan_vars, dumps>>

\* Compiler::unary after its operand was parsed.
unary ==
  /\ status = "compiling"
  /\ Top.fn = "unary"
  /\ chunk' = emit_instruction(chunk, Instruction("Negate"), Top.token)
  /\ frames' = Pop
  /\ UNCHANGED <<source, status, compiler, consumed, vm_vars, io_vars, scan_vars, dumps>>

\* Whether Compiler::consume finds the token it expects and advances.
ConsumeAdvances(c, t_type) == c.current # None /\ TokenType_eq(c.current[1].t_type, t_type)

\* Compiler::grouping after its call of consume, which left the compiler c1.
AfterConsume(c1) ==
  /\ compiler' = c1
  /\ consumed' = IF ConsumeAdvances(compiler, TType("RightParen"))
                 THEN Consumed(c1) ELSE consumed

\* Compiler::grouping after its inner expression was parsed.
grouping ==
  /\ status = "compiling"
  /\ Top.fn = "grouping"
  /\ AfterConsume(consume(source, compiler, TType("RightParen"),
                          "Expect to have ')' at the end of grouping expression"))
  /\ frames' = Pop
  /\ UNCHANGED <<source, status, chunk, vm_vars, io_vars, scan_vars, dumps>>

\* Compiler::finish_compiler, and compile_to_chunk returns the chunk.
finish_compiler ==
  /\ status = "compiling"
  /\ Top.fn = "compile_to_chunk"
  /\ chunk' = emit_instruction_for_last_token(chunk, compiler, Instruction("Return"))
  /\ frames' = Pop
  /\ status' = "compiled"
  /\ UNCHANGED <<source, compiler, consumed, vm_vars, io_vars, scan_vars, dumps>>

(***************************************************************************)
(* vm.rs: VM::interpret, one action per executed instruction.              *)
(***************************************************************************)
stack_push(stack, value) == Append(stack, value)

\* Vec::pop: the last value (None on an empty stack) and the rest.
stack_pop(stack) ==
  IF stack = <<>> THEN [stack |-> stack, v |-> None]
  ELSE [stack |-> SubSeq(stack, 1, Len(stack) - 1), v |-> Some(stack[Len(stack)])]

\* l.$name(&r) of binary_stack_op! for each binary instruction
BinaryValue(op, l, r) ==
  CASE op = "Add" -> add(l, r)
    [] op = "Multiply" -> multiply(l, r)
    [] op = "Divide" -> divide(l, r)
    [] op = "Subtract" -> subtract(l, r)

\* Faulty variant of BinaryPopped: with the left operand missing, the right
\* one is pushed back and execution goes on.
BinaryPopped_lenient(op, r, l) ==
  IF r.v = None THEN [stack |-> r.stack, result |-> "RuntimeError"]
  ELSE IF l.v = None THEN [stack |-> stack_push(l.stack, r.v[1]), result |-> "running"]
  ELSE [stack |-> stack_push(l.stack, BinaryValue(op, l.v[1], r.v[1])),
        result |-> "running"]

\* binary_stack_op! once both pops are made: r, then l.
BinaryPopped(op, r, l) ==
  IF r.v = None THEN [stack |-> r.stack, result |-> "RuntimeError"]
  ELSE IF l.v = None THEN [stack |-> l.stack, result |-> "RuntimeError"]
  ELSE [stack |-> stack_push(l.stack, BinaryValue(op, l.v[1], r.v[1])),
        result |-> "running"]

\* binary_stack_op!: pop the right operand, then the left one; push the
\* result, or return RuntimeError when a pop found the stack empty.
binary_stack_op(stack, op) ==
  BinaryPopped(op, stack_pop(stack), stack_pop(stack_pop(stack).stack))

NegatePopped(p) ==
  IF p.v = None THEN [stack |-> p.stack, result |-> "RuntimeError"]
  ELSE [stack |-> stack_push(p.stack, negate(p.v[1])), result |-> "running"]

\* The Negate arm of VM::interpret.
negate_stack_op(stack) == NegatePopped(stack_pop(stack))

\* The Constant arm: indexing the constant pool out of bounds panics.
constant_stack_op(stack, ch, i) ==
  IF i < Len(ch.constants)
  THEN [stack |-> stack_push(stack, ch.constants[i + 1]), result |-> "running"]
  ELSE [stack |-> stack, result |-> "panicked"]

\* One turn of the loop of VM::interpret on instruction `ins`.
Execute(stack, ch, ins) ==
  CASE ins.op = "Return" -> [stack |-> stack_pop(stack).stack, result |-> "Ok"]
    [] ins.op = "Constant" -> constant_stack_op(stack, ch, ins.arg)
    [] ins.op = "Negate" -> negate_stack_op(stack)
    [] OTHER -> binary_stack_op(stack, ins.op)

\* A caller holding the chunk compile_to_chunk returned calls
\* VM::interpret on it; the VM value is kept from call to call.
interpret_call ==
  /\ status = "compiled"
  /\ vm_status \in {"idle", "Ok", "RuntimeError"}
  /\ calls < MaxCalls
  /\ vm_status' = "running"
  /\ calls' = calls + 1
  /\ UNCHANGED <<source, status, compiler, chunk, frames, consumed, vm, printed, io_vars, scan_vars, dumps>>

\* The VM after one instruction: e is what Execute returned.
Executed(ins, e) ==
  /\ vm' = [ip |-> vm.ip + 1, stack |-> e.stack]
  /\ vm_status' = e.result
  /\ printed' = IF ins.op = "Return"
                THEN Append(printed, stack_pop(vm.stack).v)
                ELSE printed

\* read_instruction and the match arm of one instruction.  Indexing the
\* instructions past their end panics.
interpret ==
  /\ vm_status = "running"
  /\ IF vm.ip < Len(chunk.instructions)
     THEN Executed(chunk.instructions[vm.ip + 1].ins,
                   Execute(vm.stack, chunk, chunk.instructions[vm.ip + 1].ins))
     ELSE /\ vm' = [vm EXCEPT !.ip = vm.ip + 1]
          /\ vm_status' = "panicked"
          /\ printed' = printed
  /\ UNCHANGED <<source, status, compiler, chunk, frames, consumed, calls, io_vars, scan_vars, dumps>>

(***************************************************************************)
(* vm.rs interpret_source, compiler.rs compile, util.rs run_file.          *)
(***************************************************************************)
\* What interpret_source returns once compile(source) has returned.
interpret_source_result(c, ch) == "Ok"

\* compile() disassembles the chunk compile_to_chunk returned, and
\* interpret_source returns.
interpret_source ==
  /\ status = "compiled"
  /\ outcome = None
  /\ dump' = Some(disassemble(chunk))
  /\ chunk' = after_disassemble(chunk)
  /\ outcome' = Some(interpret_source_result(compiler, chunk))
  /\ UNCHANGED <<source, status, compiler, frames, consumed, vm_vars, scan_vars, dumps>>

\* A caller holding the chunk compile_to_chunk returned calls
\* Chunk::disassemble on it, before or after a call of VM::interpret.
disassemble_call ==
  /\ status = "compiled"
  /\ vm_status \in {"idle", "Ok", "RuntimeError"}
  /\ Len(dumps) < MaxDumps
  /\ dumps' = Append(dumps, [output |-> disassemble(chunk), calls |-> calls])
  /\ chunk' = after_disassemble(chunk)
  /\ UNCHANGED <<source, status, compiler, frames, consumed, vm_vars, io_vars, scan_vars>>

\* The exit code run_file gives each InterpretResult.
run_file_exit(result) ==
  CASE result = "Ok" -> 0
    [] result = "RuntimeError" -> 1
    [] result = "CompileError" -> 2

Next ==
  \/ compile_to_chunk
  \/ parse_precedence
  \/ parse_precedence_loop
  \/ binary
  \/ unary
  \/ grouping
  \/ finish_compiler
  \/ interpret_call
  \/ interpret
  \/ interpret_source
  \/ disassemble_call

Spec == Init /\ [][Next]_vars

(***************************************************************************)
(* A caller iterating a Scanner by itself, as the tests of scanner.rs do:  *)
(* Scanner::new(source), then calls of next.                               *)
(***************************************************************************)
\* Longest source of the exhaustive family of scanned texts.
MaxScanLen == 3

\* Most calls of next made beyond one per character of the source.
MaxAfterEnd == 2

ScanChars == {"!", "=", "<", ">", "/", "\n", " ", "\"", "7", ".", "o", "r", "@"}

ScanSoup == UNION {[1..n -> ScanChars] : n \in 0..MaxScanLen}

\* The sources of the tests of scanner.rs.
ScanTestSources ==
  {<<"/", "*", " ", "!", "=", " ", "=", " ",
   "+", "\n", " ", "<", " ", " ", "(", ")",
   "{", "}", "\n", "!">>,
   <<"+", " ", "/", "/", " ", "f", "r", "2",
   "f", "3", "4", "f", "2", "3", "f", "2",
   "4", ";", "\n", "/", "/", "\n", "/", "\n",
   "/", "/", "/">>,
   <<"\"", "a", "b", "c", "d", "e", "\"", " ",
   "\"", "f", "g", "h", "\n", "i", "j", "\"",
   "\n", "\"", "\"", "\n", "\"", "k", "l", "m",
   "n">>,
   <<"4", "5", "6", " ", "3", "2", "6", ".",
   "3", " ", "6", "4", "4", ".", ".">>,
   <<"t", "h", "i", "s", " ", "f", "a", "l",
   "s", "e", "f", "i", "e", "d", " ", "f",
   "a", "l", "s", "e", " ", "t", " ", "t",
   "h", "a", "t", " ", "b", "a", "d", " ",
   "c", "l", "a", "s", "s">>}

ScanExtraSources ==
  {<<"\"", "a", "\n", "b", "\n">>,
   <<"1", ".", "5", ".", "2">>,
   <<"1", "2", ".", "x">>,
   <<"a", "/", "/", "b", "\n", "@">>,
   <<"\t", "\r", " ", "7">>,
   <<"<", "=", ">", "=", "!", "=", "=", "=">>,
   <<"_", "o", "r">>,
   <<"0", ".", "2", "5">>,
   <<",", " ", ";", " ", "-", " ", "*">>,
   <<"\"", "\n", "\n", "\"", " ", "3", ".", "\n", ".">>}

\* The 16 reserved words.
Keywords ==
  {<<"a", "n", "d">>,
   <<"c", "l", "a", "s", "s">>,
   <<"e", "l", "s", "e">>,
   <<"f", "a", "l", "s", "e">>,
   <<"f", "o", "r">>,
   <<"f", "u", "n">>,
   <<"i", "f">>,
   <<"n", "i", "l">>,
   <<"o", "r">>,
   <<"p", "r", "i", "n", "t">>,
   <<"r", "e", "t", "u", "r", "n">>,
   <<"s", "u", "p", "e", "r">>,
   <<"t", "h", "i", "s">>,
   <<"t", "r", "u", "e">>,
   <<"v", "a", "r">>,
   <<"w", "h", "i", "l", "e">>}

\* A word cut short, a word with one more character, a word after one.
KeywordExtensions == {"s", "_", "E"}

Prefixes(w) == {SubSeq(w, 1, n) : n \in 1..Len(w)}

KeywordSources ==
  UNION {Prefixes(w) \cup {w \o <<c>> : c \in KeywordExtensions}
                     \cup {<<c>> \o w : c \in KeywordExtensions}
                     \cup {w \o <<" ">> \o v : v \in {<<"o", "r">>, <<"x">>}}
         : w \in Keywords}

\* Most tokens of a source of the family of punctuation sources.
MaxPunctTokens == 2

PunctuationLexemes ==
  {<<"(">>, <<")">>, <<"{">>, <<"}">>, <<";">>, <<",">>, <<".">>, <<"-">>,
   <<"+">>, <<"/">>, <<"*">>, <<"!">>, <<"!", "=">>, <<"=">>, <<"=", "=">>,
   <<">">>, <<">", "=">>, <<"<">>, <<"<", "=">>}

\* The sources of up to k punctuation lexemes, one space between two.
RECURSIVE Punctuation(_)
Punctuation(k) ==
  IF k = 0 THEN {<<>>}
  ELSE PunctuationLexemes \cup
       {p \o <<" ">> \o l : p \in Punctuation(k - 1) \ {<<>>}, l \in PunctuationLexemes}

PunctuationSources == Punctuation(MaxPunctTokens)

ScanSources ==
  ScanSoup \cup ScanTestSources \cup ScanExtraSources \cup KeywordSources
           \cup PunctuationSources

\* Scanner::new(source): nothing of the compiler or the VM exists.
ScanInit ==
  /\ source \in ScanSources
  /\ status = "start"
  /\ compiler = [scanner |-> Scanner_new, current |-> None, previous |-> None,
                 errors |-> <<>>, panic_mode |-> FALSE, last_token_line |-> 0]
  /\ chunk = Chunk_new
  /\ frames = <<>>
  /\ consumed = <<>>
  /\ vm = VM_new
  /\ vm_status = "idle"
  /\ calls = 0
  /\ printed = <<>>
  /\ outcome = None
  /\ dump = None
  /\ scanner = Scanner_new
  /\ returned = <<>>
  /\ dumps = <<>>

\* The caller's scanner after a call of next that returned r.tok.
Returned(r) ==
  /\ scanner' = r.sc
  /\ returned' = Append(returned, r.tok)

\* One call of Iterator::next on the caller's scanner.
scanner_next ==
  /\ Len(returned) < Len(source) + MaxAfterEnd
  /\ Returned(Scanner_next(source, scanner))
  /\ UNCHANGED <<source, compile_vars, vm_vars, io_vars, dumps>>

ScanNext == scanner_next

ScanSpec == ScanInit /\ [][ScanNext]_vars

(***************************************************************************)
(* Reference definitions the properties are stated with.                   *)
(***************************************************************************)
\* The operation codes of a chunk's instructions, Constant with its index.
Code(ch) == [i \in 1..Len(ch.instructions) |-> ch.instructions[i].ins]

Kinds(toks) == [i \in 1..Len(toks) |-> toks[i].t_type.kind]

\* The values of the Number tokens of a token sequence, in order.
RECURSIVE Literals(_)
Literals(toks) ==
  IF toks = <<>> THEN <<>>
  ELSE IF toks[1].t_type.kind = "Number"
       THEN <<toks[1].t_type.num>> \o Literals(Tail(toks))
       ELSE Literals(Tail(toks))

\* How many Number tokens come before position i.
NumbersBefore(toks, i) == Cardinality({j \in 1..(i - 1) : toks[j].t_type.kind = "Number"})

BinaryKinds == {"Plus", "Minus", "Star", "Slash"}

\* number (operator number)*
IsArithmetic(toks) ==
  /\ Len(toks) % 2 = 1
  /\ \A i \in 1..Len(toks) :
       IF i % 2 = 1 THEN toks[i].t_type.kind = "Number"
       ELSE toks[i].t_type.kind \in BinaryKinds

OpOf(kind) ==
  CASE kind = "Plus" -> Instruction("Add")
    [] kind = "Minus" -> Instruction("Subtract")
    [] kind = "Star" -> Instruction("Multiply")
    [] kind = "Slash" -> Instruction("Divide")

\* The postfix form of an expression by the grammar
\*   expr    ::= term (("+" | "-") term)*
\*   term    ::= primary (("*" | "/") primary)*
\*   primary ::= NUMBER | "(" expr ")"
\* Each parser returns the code, the position after what it parsed and
\* whether it parsed something well-formed.
RECURSIVE RefExpr(_, _), RefExprRest(_, _), RefTerm(_, _), RefTermRest(_, _), RefPrimary(_, _)

KindAt(toks, i) == IF i <= Len(toks) THEN toks[i].t_type.kind ELSE "End"

RefFail(i) == [code |-> <<>>, next |-> i, ok |-> FALSE]

RefPrimary(toks, i) ==
  IF KindAt(toks, i) = "Number"
  THEN [code |-> <<Constant(NumbersBefore(toks, i))>>, next |-> i + 1, ok |-> TRUE]
  ELSE IF KindAt(toks, i) = "LeftParen"
  THEN LET e == RefExpr(toks, i + 1)
       IN IF e.ok /\ KindAt(toks, e.next) = "RightParen"
          THEN [e EXCEPT !.next = e.next + 1]
          ELSE RefFail(i)
  ELSE RefFail(i)

\* left is the term parsed so far; fold the following factors into it.
RefTermRest(toks, left) ==
  IF left.ok /\ KindAt(toks, left.next) \in {"Star", "Slash"}
  THEN LET right == RefPrimary(toks, left.next + 1)
       IN RefTermRest(toks,
            [code |-> left.code \o right.code \o <<OpOf(KindAt(toks, left.next))>>,
             next |-> right.next, ok |-> right.ok])
  ELSE left

RefTerm(toks, i) == RefTermRest(toks, RefPrimary(toks, i))

RefExprRest(toks, left) ==
  IF left.ok /\ KindAt(toks, left.next) \in {"Plus", "Minus"}
  THEN LET right == RefTerm(toks, left.next + 1)
       IN RefExprRest(toks,
            [code |-> left.code \o right.code \o <<OpOf(KindAt(toks, left.next))>>,
             next |-> right.next, ok |-> right.ok])
  ELSE left

RefExpr(toks, i) == RefExprRest(toks, RefTerm(toks, i))

\* A whole source is a well-formed expression of the grammar.
WellFormed(toks) == RefExpr(toks, 1).ok /\ RefExpr(toks, 1).next = Len(toks) + 1

Postfix(toks) == RefExpr(toks, 1).code

HasParen(toks) == \E i \in 1..Len(toks) : toks[i].t_type.kind = "LeftParen"

\* The f64 value of `a op b`.
MathValue(kind, a, b) ==
  CASE kind = "Plus" -> F64Add(a, b)
    [] kind = "Minus" -> F64Sub(a, b)
    [] kind = "Star" -> F64Mul(a, b)
    [] kind = "Slash" -> F64Div(a, b)

C(i) == Constant(i)
Add == Instruction("Add")
Subtract == Instruction("Subtract")
Multiply == Instruction("Multiply")
Divide == Instruction("Divide")
Negate == Instruction("Negate")
Return == Instruction("Return")

(***************************************************************************)
(* Properties.                                                             *)
(***************************************************************************)
Toks == ScanAll(source)

\* The first interpret call on the VM (a fresh VM) has ended.
FirstRunEnded == calls = 1 /\ vm_status \in {"Ok", "RuntimeError", "panicked"}

\* C1: for a source `a op b`, executing the compiled chunk on a fresh VM
\* reports the mathematically correct value a op b at Return.
C1_BinaryResultIsCorrect ==
  (source \in BinSources /\ status = "compiled" /\ FirstRunEnded)
    => /\ vm_status = "Ok"
       /\ printed = <<Some(MathValue(Toks[2].t_type.kind,
                                     Toks[1].t_type.num, Toks[3].t_type.num))>>

\* C2: a source number (operator number)* compiles to the postfix form of
\* the expression read with * and / binding tighter than + and -, followed
\* by Return, and the constant pool holds the literals in source order.
C2_PostfixWithPrecedence ==
  (status = "compiled" /\ IsArithmetic(Toks))
    => /\ Code(chunk) = Postfix(Toks) \o <<Return>>
       /\ chunk.constants = Literals(Toks)
       /\ (Kinds(Toks) = <<"Number", "Minus", "Number", "Star", "Number">>
             => /\ Code(chunk) = <<C(0), C(1), C(2), Multiply, Subtract, Return>>
                /\ Code(chunk) # <<C(0), C(1), Subtract, C(2), Multiply, Return>>)
       /\ (Len(Toks) = 3 => Code(chunk) = <<C(0), C(1), OpOf(Toks[2].t_type.kind), Return>>)

C2_Witness ==
  /\ status = "compiled"
  /\ Kinds(Toks) = <<"Number", "Minus", "Number", "Star", "Number">>
  /\ Code(chunk) = <<C(0), C(1), C(2), Multiply, Subtract, Return>>
  /\ chunk.constants = <<Double(1), Double(2), Double(3)>>

\* n1 op n2 op n3 with one operator twice
IsSameOpChain(toks) ==
  /\ Len(toks) = 5
  /\ IsArithmetic(toks)
  /\ toks[2].t_type.kind = toks[4].t_type.kind

\* C3: n1 op n2 op n3 compiles to the left-grouped order
\* [C0, C1, op, C2, op, Return], never to the right-grouped one.
C3_LeftAssociative ==
  (status = "compiled" /\ IsSameOpChain(Toks))
    => /\ Code(chunk) = <<C(0), C(1), OpOf(Toks[2].t_type.kind),
                          C(2), OpOf(Toks[2].t_type.kind), Return>>
       /\ Code(chunk) # <<C(0), C(1), C(2), OpOf(Toks[2].t_type.kind),
                          OpOf(Toks[2].t_type.kind), Return>>
       /\ chunk.constants = <<Toks[1].t_type.num, Toks[3].t_type.num, Toks[5].t_type.num>>

C3_Witness ==
  /\ status = "compiled"
  /\ Kinds(Toks) = <<"Number", "Minus", "Number", "Minus", "Number">>
  /\ Code(chunk) = <<C(0), C(1), Subtract, C(2), Subtract, Return>>

GroupingTest1 ==
  <<"(", "1", " ", "+", " ", "2", ")", " ", "*", " ", "(", "3", " ", "-", " ", "4", ")">>

GroupingTest2 ==
  <<"(", "(", "(", "1", " ", "+", " ", "3", ")", " ", "*", " ", "4", ")", " ",
    "+", " ", "2", ")", " ", "*", " ", "5">>

\* C4: a well-formed source with parentheses compiles, with no error, to the
\* postfix form in which each parenthesised group is emitted whole before
\* the operator that uses it.
C4_GroupingOverridesPrecedence ==
  (status = "compiled" /\ HasParen(Toks) /\ WellFormed(Toks))
    => /\ Code(chunk) = Postfix(Toks) \o <<Return>>
       /\ chunk.constants = Literals(Toks)
       /\ compiler.errors = <<>>
       /\ (source = GroupingTest1
             => Code(chunk) = <<C(0), C(1), Add, C(2), C(3), Subtract, Multiply, Return>>)
       /\ (source = GroupingTest2
             => Code(chunk) = <<C(0), C(1), Add, C(2), Multiply, C(3), Add,
                                C(4), Multiply, Return>>)

C4_Witness ==
  /\ status = "compiled"
  /\ source = GroupingTest2
  /\ Code(chunk) = <<C(0), C(1), Add, C(2), Multiply, C(3), Add, C(4), Multiply, Return>>
  /\ compiler.errors = <<>>

\* C5: compile_to_chunk never panics, whatever token follows an operand.
C5_CompilationNeverPanics == status # "panicked"

\* The line of the last token that became `previous` (0 when none did).
LastConsumedLine == IF consumed = <<>> THEN 0 ELSE Last(consumed).line

\* C6: a returned chunk holds exactly one Return, as its last instruction,
\* tagged with the line of the last token the compiler consumed.
C6_OneTrailingReturn ==
  status = "compiled"
    => /\ chunk.instructions # <<>>
       /\ \A i \in 1..Len(chunk.instructions) :
            (chunk.instructions[i].ins.op = "Return") <=> (i = Len(chunk.instructions))
       /\ Last(chunk.instructions).line = LastConsumedLine

C6_Witness ==
  /\ status = "compiled"
  /\ compiler.errors # <<>>
  /\ Len(consumed) = 2
  /\ Last(chunk.instructions) = InstructionWithLine(Return, 2)
  /\ Len(chunk.instructions) = 2

\* C7: a chunk compiled with no recorded error runs on a fresh VM with no
\* pop of an empty stack: no RuntimeError, Return finds exactly one value
\* and leaves the stack empty.
C7_ErrorFreeChunkIsStackSafe ==
  (status = "compiled" /\ compiler.errors = <<>> /\ FirstRunEnded)
    => /\ vm_status = "Ok"
       /\ Len(printed) = 1
       /\ printed[1] # None
       /\ vm.stack = <<>>

\* C8: interpret_source reports CompileError when the compilation recorded
\* an error, and Ok only for a source that compiled without one.
C8_InterpretSourceOutcome ==
  outcome # None
    => /\ (compiler.errors # <<>> => outcome = Some("CompileError"))
       /\ (outcome = Some("Ok") => compiler.errors = <<>>)

\* The instruction VM::interpret executes next.
NextIns == chunk.instructions[vm.ip + 1].ins

\* The next instruction pops more values than the stack holds.
Underflow ==
  /\ vm_status = "running"
  /\ vm.ip < Len(chunk.instructions)
  /\ \/ NextIns.op = "Negate" /\ Len(vm.stack) < 1
     \/ NextIns.op \in {"Add", "Subtract", "Multiply", "Divide"} /\ Len(vm.stack) < 2

\* C9: a Negate on an empty stack, or a binary instruction on fewer than
\* two values, ends interpret with RuntimeError at once, pushing nothing;
\* and interpret ends with RuntimeError only so.
C9_UnderflowIsRuntimeError ==
  [][interpret =>
       /\ Underflow => /\ vm_status' = "RuntimeError"
                       /\ vm'.stack = <<>>
                       /\ printed' = printed
       /\ vm_status' = "RuntimeError" => Underflow]_vars

C9_Witness ==
  /\ vm_status = "RuntimeError"
  /\ vm.ip = 2
  /\ Code(chunk) = <<C(0), Add, Return>>
  /\ vm.stack = <<>>

\* The indices of the Constant instructions of a chunk, in order.
RECURSIVE ConstantIndices(_)
ConstantIndices(code) ==
  IF code = <<>> THEN <<>>
  ELSE IF code[1].op = "Constant"
       THEN <<code[1].arg>> \o ConstantIndices(Tail(code))
       ELSE ConstantIndices(Tail(code))

\* C10: at every point of a compilation the k-th Constant instruction
\* carries index k, so every index is within the constant pool and there
\* are as many Constant instructions as constants.
C10_ConstantIndicesInRange ==
  /\ \A i \in 1..Len(chunk.instructions) :
       chunk.instructions[i].ins.op = "Constant"
         => chunk.instructions[i].ins.arg \in 0..(Len(chunk.constants) - 1)
  /\ ConstantIndices(Code(chunk)) = [k \in 1..Len(chunk.constants) |-> k - 1]

C10_Witness ==
  /\ status = "compiling"
  /\ Len(chunk.constants) = 3
  /\ ConstantIndices(Code(chunk)) = <<0, 1, 2>>

(***************************************************************************)
(* Properties of the scanner (ScanSpec).                                   *)
(***************************************************************************)
\* The number of characters the scanner has taken from the source.
Taken(sc) == sc.current - Len(sc.look_ahead)

AtEnd == returned # <<>> /\ Last(returned) = None

\* C11: every call of next that returns a token takes at least one more
\* character of the source, so that the call after as many calls as the
\* source has characters returns None; and once next has returned None
\* every later call returns None.
C11_ScannerTerminates ==
  [][returned' # returned =>
       /\ Last(returned') # None => Taken(scanner') > Taken(scanner)
       /\ Len(returned) >= Len(source) => Last(returned') = None
       /\ AtEnd => Last(returned') = None]_vars

\* A token was returned, then None twice.
C11_Witness ==
  /\ Len(returned) >= 3
  /\ returned[1] # None
  /\ returned[Len(returned) - 1] = None
  /\ Last(returned) = None

\* The number of newline characters among the first k characters.
Newlines(src, k) == Cardinality({i \in 1..k : src[i] = "\n"})

\* The number of characters before the token the next call of next returns.
TokenStart == Taken(skip_whitespaces(source, scanner))

\* The position of the first double quote after position p (0 without one).
ClosingQuote(src, p) ==
  IF \E q \in (p + 1)..Len(src) : src[q] = "\""
  THEN CHOOSE q \in (p + 1)..Len(src) :
         src[q] = "\"" /\ \A k \in (p + 1)..(q - 1) : src[k] # "\""
  ELSE 0

UnterminatedAt(line) == Some(Token(Error("Unterminated string"), line))

\* What a call of next returns for a token that starts with the double
\* quote at position p, whose closing quote is at q (0: there is none).
StringResult(p, q) ==
  IF q = 0
  THEN /\ Last(returned') = UnterminatedAt(1 + Newlines(source, Len(source)))
       /\ Taken(scanner') = Len(source)
  ELSE /\ Last(returned') =
            Some(Token(String(SubSeq(source, p + 1, q - 1)), 1 + Newlines(source, q)))
       /\ Taken(scanner') = q

\* C12: a string literal without its closing quote gives the token
\* Error("Unterminated string") on the line where the input ended and the
\* next call returns None; a terminated one gives String(the text between
\* the quotes) on the line of its closing quote.
C12_StringLiterals ==
  [][returned' # returned =>
       /\ (TokenStart < Len(source) /\ source[TokenStart + 1] = "\"") =>
             StringResult(TokenStart + 1, ClosingQuote(source, TokenStart + 1))
       /\ (returned # <<>> /\ Last(returned) # None
            /\ Last(returned)[1].t_type = Error("Unterminated string")) =>
             Last(returned') = None]_vars

\* A string with a newline inside was returned, later an unterminated one
\* was reported on a line after the first, and then None.
C12_Witness ==
  /\ Len(returned) >= 3
  /\ Last(returned) = None
  /\ \E line \in 2..Len(source) : returned[Len(returned) - 1] = UnterminatedAt(line)
  /\ \E i \in 1..Len(returned) :
       /\ returned[i] # None
       /\ returned[i][1].t_type.kind = "String"
       /\ "\n" \in {returned[i][1].t_type.txt[k] : k \in 1..Len(returned[i][1].t_type.txt)}

OneCharKind(c) ==
  CASE c = "!" -> "Bang" [] c = "=" -> "Equal" [] c = ">" -> "Greater" [] c = "<" -> "Less"

TwoCharKind(c) ==
  CASE c = "!" -> "BangEqual" [] c = "=" -> "EqualEqual"
    [] c = ">" -> "GreaterEqual" [] c = "<" -> "LessEqual"

\* What a call of next returns for a token that starts at position p with
\* one of ! = > <.
OperatorResult(p) ==
  IF p < Len(source) /\ source[p + 1] = "="
  THEN /\ Last(returned') =
            Some(Token(TType(TwoCharKind(source[p])), 1 + Newlines(source, p)))
       /\ Taken(scanner') = p + 1
  ELSE /\ Last(returned') =
            Some(Token(TType(OneCharKind(source[p])), 1 + Newlines(source, p)))
       /\ Taken(scanner') = p

\* C13: at one of ! = > <, a directly following = gives the two-character
\* kind and both characters are taken; otherwise the one-character kind is
\* given and only the first character is taken.
C13_TwoCharacterTokens ==
  [][returned' # returned =>
       ((TokenStart < Len(source) /\ source[TokenStart + 1] \in {"!", "=", ">", "<"})
          => OperatorResult(TokenStart + 1))]_vars

\* `=<=` gave Equal, with the `<` left to start the next token, and then
\* LessEqual, with both characters taken.
C13_Witness ==
  /\ source = <<"=", "<", "=">>
  /\ Len(returned) = 3
  /\ returned[1] = Some(Token(TType("Equal"), 1))
  /\ returned[2] = Some(Token(TType("LessEqual"), 1))
  /\ returned[3] = None

\* The end of the longest run of digits that starts at position p (p - 1
\* when there is no digit at p).
RunEnd(src, p) ==
  CHOOSE e \in (p - 1)..Len(src) :
    /\ \A k \in p..e : src[k] \in Digits
    /\ e = Len(src) \/ src[e + 1] \notin Digits

\* The end of the number that starts at p: its digits, and a `.` with the
\* digits after it when a digit comes right after the `.`.
NumberEnd(src, p) ==
  IF /\ RunEnd(src, p) + 2 <= Len(src)
     /\ src[RunEnd(src, p) + 1] = "."
     /\ src[RunEnd(src, p) + 2] \in Digits
  THEN RunEnd(src, RunEnd(src, p) + 2)
  ELSE RunEnd(src, p)

\* The natural number a sequence of digits writes.
RECURSIVE NatOf(_)
NatOf(digits) ==
  IF digits = <<>> THEN 0
  ELSE 10 * NatOf(SubSeq(digits, 1, Len(digits) - 1)) + DigitVal(Last(digits))

\* The number written by the characters p..e: whole part i, and the digits
\* f after the `.` (none when e is the end of the first run).
WrittenNumber(i, f) == Finite(1, NatOf(i) * Pow10(Len(f)) + NatOf(f), Pow10(Len(f)))

WrittenValue(src, p, e) ==
  WrittenNumber(SubSeq(src, p, RunEnd(src, p)), SubSeq(src, RunEnd(src, p) + 2, e))

\* What a call of next returns for a token that starts at p with a digit.
NumberResult(p) ==
  /\ Last(returned') =
       Some(Token(Number(WrittenValue(source, p, NumberEnd(source, p))),
                  1 + Newlines(source, p)))
  /\ Taken(scanner') = NumberEnd(source, p)

\* What a call of next returns for a token that starts at p with a `.`.
DotResult(p) ==
  /\ Last(returned') = Some(Token(TType("Dot"), 1 + Newlines(source, p)))
  /\ Taken(scanner') = p

\* C14: a number token takes the longest run of digits and then a `.` with
\* a further run of digits only when a digit comes right after the `.`;
\* its value is the number its characters write; a `.` that was looked at
\* and not taken is the next token.
C14_NumberTokens ==
  [][returned' # returned =>
       /\ (TokenStart < Len(source) /\ source[TokenStart + 1] \in Digits)
            => NumberResult(TokenStart + 1)
       /\ (TokenStart < Len(source) /\ source[TokenStart + 1] = ".")
            => DotResult(TokenStart + 1)]_vars

\* The tokens of the test `456 326.3 644..`: the last number left both
\* dots to be tokens.
C14_Witness ==
  /\ Len(returned) = 5
  /\ returned[1] = Some(Token(Number(Double(456)), 1))
  /\ returned[2] = Some(Token(Number(Finite(1, 3263, 10)), 1))
  /\ returned[3] = Some(Token(Number(Double(644)), 1))
  /\ returned[4] = Some(Token(TType("Dot"), 1))
  /\ returned[5] = Some(Token(TType("Dot"), 1))

\* The position of the first newline after position p, less one (the end
\* of the source without one): where a comment that covers p ends.
CommentEnd(src, p) ==
  IF \E q \in (p + 1)..Len(src) : src[q] = "\n"
  THEN (CHOOSE q \in (p + 1)..Len(src) :
          src[q] = "\n" /\ \A k \in (p + 1)..(q - 1) : src[k] # "\n") - 1
  ELSE Len(src)

\* The number of characters before the first token after the first p
\* characters: whitespace and `//` comments skipped.
RECURSIVE RefSkip(_, _)
RefSkip(src, p) ==
  IF p >= Len(src) THEN p
  ELSE IF src[p + 1] \in {" ", "\r", "\t", "\n"} THEN RefSkip(src, p + 1)
  ELSE IF src[p + 1] = "/" /\ p + 2 <= Len(src) /\ src[p + 2] = "/"
       THEN RefSkip(src, CommentEnd(src, p + 2))
  ELSE p

\* What a call of next returns when p characters come before the first
\* character that is neither whitespace nor in a comment.
SkipResult(p) ==
  IF p = Len(source) THEN Last(returned') = None
  ELSE /\ Last(returned') # None
       /\ TokenStart = p
       /\ Taken(scanner') > p
       /\ source[p + 1] = "/" =>
            /\ Last(returned')[1].t_type = TType("Slash")
            /\ Taken(scanner') = p + 1
       /\ Last(returned')[1].line =
            1 + Newlines(source, IF source[p + 1] = "\"" THEN Taken(scanner') ELSE p)

\* C15: whitespace and // comments give no token, a / not followed by / gives
\* Slash, and a token's line is 1 plus the number of newlines before it
\* (for a string: before its end), those ending comments included.
C15_WhitespaceCommentsAndLines ==
  [][returned' # returned => SkipResult(RefSkip(source, Taken(scanner)))]_vars

\* The tokens of the test comments_scan: Plus on line 1, Slash on line 3
\* after two comments, and nothing for the last comment.
C15_Witness ==
  /\ Len(source) > 20
  /\ Len(returned) = 3
  /\ returned[1] = Some(Token(TType("Plus"), 1))
  /\ returned[2] = Some(Token(TType("Slash"), 3))
  /\ returned[3] = None

\* The token kind of each reserved word.
KeywordKind(word) ==
  CASE word = <<"a", "n", "d">> -> "And"
    [] word = <<"c", "l", "a", "s", "s">> -> "Class"
    [] word = <<"e", "l", "s", "e">> -> "Else"
    [] word = <<"f", "a", "l", "s", "e">> -> "False"
    [] word = <<"f", "o", "r">> -> "For"
    [] word = <<"f", "u", "n">> -> "Fun"
    [] word = <<"i", "f">> -> "If"
    [] word = <<"n", "i", "l">> -> "Nil"
    [] word = <<"o", "r">> -> "Or"
    [] word = <<"p", "r", "i", "n", "t">> -> "Print"
    [] word = <<"r", "e", "t", "u", "r", "n">> -> "Return"
    [] word = <<"s", "u", "p", "e", "r">> -> "Super"
    [] word = <<"t", "h", "i", "s">> -> "This"
    [] word = <<"t", "r", "u", "e">> -> "True"
    [] word = <<"v", "a", "r">> -> "Var"
    [] word = <<"w", "h", "i", "l", "e">> -> "While"

\* The end of the longest run of letters and underscores that starts at p.
WordEnd(src, p) ==
  CHOOSE e \in p..Len(src) :
    /\ \A k \in p..e : is_allowed_for_identifier(src[k])
    /\ e = Len(src) \/ ~is_allowed_for_identifier(src[e + 1])

WordType(word) ==
  IF word \in Keywords THEN TType(KeywordKind(word)) ELSE Identifier(word)

\* What a call of next returns for a token that starts at p with a letter
\* or an underscore.
WordResult(p) ==
  /\ Last(returned') =
       Some(Token(WordType(SubSeq(source, p, WordEnd(source, p))),
                  1 + Newlines(source, p)))
  /\ Taken(scanner') = WordEnd(source, p)

\* C16: the longest run of letters and underscores is a keyword token when
\* the whole run is one of the 16 reserved words, and otherwise an
\* Identifier that carries the run.
C16_KeywordsAndIdentifiers ==
  [][returned' # returned =>
       ((TokenStart < Len(source) /\ is_allowed_for_identifier(source[TokenStart + 1]))
          => WordResult(TokenStart + 1))]_vars

\* The tokens of the test keywords_and_identifiers.
C16_Witness ==
  /\ Len(returned) = 8
  /\ returned[1] = Some(Token(TType("This"), 1))
  /\ returned[2] = Some(Token(Identifier(<<"f", "a", "l", "s", "e", "f", "i", "e", "d">>), 1))
  /\ returned[3] = Some(Token(TType("False"), 1))
  /\ returned[4] = Some(Token(Identifier(<<"t">>), 1))
  /\ returned[7] = Some(Token(TType("Class"), 1))
  /\ returned[8] = None

\* The tokens the calls of next have returned.
RECURSIVE Somes(_)
Somes(rs) ==
  IF rs = <<>> THEN <<>>
  ELSE IF rs[1] = None THEN Somes(Tail(rs))
  ELSE <<rs[1][1]>> \o Somes(Tail(rs))

ReturnedTokens == Somes(returned)

PunctuationKinds ==
  {"LeftParen", "RightParen", "LeftBrace", "RightBrace", "Semicolon", "Comma",
   "Dot", "Minus", "Plus", "Slash", "Star", "Bang", "BangEqual", "Equal",
   "EqualEqual", "Greater", "GreaterEqual", "Less", "LessEqual"}

\* The characters a punctuation token was made from.
Lexeme(kind) ==
  CASE kind = "LeftParen" -> <<"(">> [] kind = "RightParen" -> <<")">>
    [] kind = "LeftBrace" -> <<"{">> [] kind = "RightBrace" -> <<"}">>
    [] kind = "Semicolon" -> <<";">> [] kind = "Comma" -> <<",">>
    [] kind = "Dot" -> <<".">> [] kind = "Minus" -> <<"-">>
    [] kind = "Plus" -> <<"+">> [] kind = "Slash" -> <<"/">>
    [] kind = "Star" -> <<"*">> [] kind = "Bang" -> <<"!">>
    [] kind = "BangEqual" -> <<"!", "=">> [] kind = "Equal" -> <<"=">>
    [] kind = "EqualEqual" -> <<"=", "=">> [] kind = "Greater" -> <<">">>
    [] kind = "GreaterEqual" -> <<">", "=">> [] kind = "Less" -> <<"<">>
    [] kind = "LessEqual" -> <<"<", "=">>

\* The lexemes of a token sequence, one after the other without separator.
RECURSIVE Lexemes(_)
Lexemes(toks) ==
  IF toks = <<>> THEN <<>>
  ELSE Lexeme(toks[1].t_type.kind) \o Lexemes(Tail(toks))

AllPunctuation(toks) == \A i \in 1..Len(toks) : toks[i].t_type.kind \in PunctuationKinds

\* Scanning the lexemes of toks again gives tokens of the same types.
RoundTrips(toks) == Kinds(ScanAll(Lexemes(toks))) = Kinds(toks)

\* Two tokens whose lexemes, put side by side, read as something else: a
\* longer operator or the start of a comment.
Joins(a, b) ==
  \/ a \in {"Bang", "Equal", "Greater", "Less"} /\ b \in {"Equal", "EqualEqual"}
  \/ a = "Slash" /\ b = "Slash"

NoJoin(toks) ==
  \A i \in 1..(Len(toks) - 1) : ~Joins(toks[i].t_type.kind, toks[i + 1].t_type.kind)

\* C17 as stated: the punctuation tokens of any source are got again, type
\* by type, from scanning their lexemes joined without separators.
C17_PunctuationRoundTrip ==
  (AtEnd /\ AllPunctuation(ReturnedTokens)) => RoundTrips(ReturnedTokens)

\* C17, amended: the same, for token sequences in which no !, =, > or < is
\* directly followed by = or == and no / is directly followed by /.
C17_PunctuationRoundTripNoJoin ==
  (AtEnd /\ AllPunctuation(ReturnedTokens) /\ NoJoin(ReturnedTokens))
    => RoundTrips(ReturnedTokens)

\* `!= =` (or the like, with a separator) gave BangEqual and Equal.
C17_Witness ==
  /\ AtEnd
  /\ Kinds(ReturnedTokens) = <<"BangEqual", "Equal">>
  /\ source # Lexemes(ReturnedTokens)

(***************************************************************************)
(* Properties of the chunk and the compiler (Spec).                        *)
(***************************************************************************)
\* C18: disassemble and interpret leave the chunk as it is: once compiled,
\* its instructions, lines and constants never change, and every
\* disassembly of it, before or after executing it, prints the same.
C18_ReadingLeavesChunkUnchanged ==
  /\ [][status = "compiled" => chunk' = chunk]_vars
  /\ [](\A i \in 1..Len(dumps) :
          /\ dumps[i].output = dumps[1].output
          /\ dump # None => dumps[i].output = dump[1])

\* The chunk of `1 - 2` (or the like) was disassembled before it was
\* executed and again after VM::interpret returned Ok.
C18_Witness ==
  /\ Len(dumps) = 2
  /\ dumps[1].calls = 0
  /\ dumps[2].calls = 1
  /\ vm_status = "Ok"
  /\ Len(dumps[2].output) >= 4
  /\ dump # None

\* The tokens of kind Error among toks.
ErrorTokens(toks) == SelectSeq(toks, LAMBDA t : t.t_type.kind = "Error")

\* C19: panic mode, once set, is never reset during the compilation, at
\* most one error is ever recorded, and panic_mode is true exactly when
\* the list of errors is not empty.
C19_PanicModeIsNeverReset ==
  /\ [][compiler.panic_mode => compiler'.panic_mode]_vars
  /\ [](/\ Len(compiler.errors) <= 1
        /\ compiler.panic_mode <=> compiler.errors # <<>>)

\* A compilation ended in which the scanner gave two Error tokens, none of
\* them taken as a token of the expression: one error is on the list.
C19_Witness ==
  /\ status = "compiled"
  /\ compiler.panic_mode
  /\ Len(compiler.errors) = 1
  /\ Len(ErrorTokens(consumed)) = 0
  /\ Len(ErrorTokens(Toks)) >= 2

IsErrorToken(opt) == opt # None /\ opt[1].t_type.kind = "Error"

\* An error recorded at an Error token carries the scanner's message.
KeepsScannerMessage(e) ==
  IsErrorToken(e.location) => e.msg = e.location[1].t_type.msg

\* C20: an Error token of the scanner, the first token of the source
\* included, is reported through error() with the scanner's message and
\* skipped: it is never the compiler's current or previous token, never
\* handed to a prefix or infix rule, and when the source starts with one
\* the recorded error is that token with its message.
C20_ErrorTokensAreReportedAndSkipped ==
  /\ ~IsErrorToken(compiler.current)
  /\ ~IsErrorToken(compiler.previous)
  /\ ErrorTokens(consumed) = <<>>
  /\ \A i \in 1..Len(compiler.errors) : KeepsScannerMessage(compiler.errors[i])
  /\ (status = "compiled" /\ Toks # <<>> /\ Toks[1].t_type.kind = "Error") =>
       compiler.errors = <<ErrorAtToken(Toks[1], Toks[1].t_type.msg)>>

\* C21: unary minus binds tighter than the binary operators: `-a op b`
\* compiles to Constant(0), Negate, Constant(1), op, Return.
C21_UnaryBindsTighter ==
  (/\ status = "compiled"
   /\ Len(Toks) = 4
   /\ Kinds(Toks)[1] = "Minus" /\ Kinds(Toks)[2] = "Number"
   /\ Kinds(Toks)[3] \in BinaryKinds /\ Kinds(Toks)[4] = "Number")
    => Code(chunk) = <<C(0), Negate, C(1), OpOf(Kinds(Toks)[3]), Return>>

\* The tokens the compiler's scanner has yet to give.
Rest == ScanFrom(source, compiler.scanner)

HasPrefixRule(token) == token.t_type.kind \in {"LeftParen", "Minus", "Number"}

\* The errors after a step that reports `err` where the compiler stood in
\* front of Error tokens or not: an Error token that advance meets is
\* reported first, and nothing is recorded in panic mode.
ErrorsAfter(err) ==
  IF compiler.panic_mode THEN compiler.errors
  ELSE IF Rest # <<>> /\ Rest[1].t_type.kind = "Error"
       THEN Append(compiler.errors, ErrorAtToken(Rest[1], Rest[1].t_type.msg))
  ELSE Append(compiler.errors, err)

\* C22: when parse_precedence consumes in prefix position a token that is
\* not `(`, `-` or a number, "Expect expression" is recorded at that token
\* unless panic mode is set by then, and no instruction is emitted for it.
C22_ExpectExpression ==
  [][(/\ status = "compiling"
      /\ Top.fn = "parse_precedence"
      /\ compiler.current # None
      /\ ~HasPrefixRule(compiler.current[1]))
       => /\ compiler'.previous = compiler.current
          /\ compiler'.panic_mode
          /\ compiler'.errors =
               ErrorsAfter(ErrorAtToken(compiler.current[1], "Expect expression"))
          /\ chunk' = chunk]_vars

\* `)` was consumed in prefix position: the error is recorded at it and
\* the chunk holds the Return alone.
C22_Witness ==
  /\ status = "compiled"
  /\ Kinds(consumed) = <<"RightParen">>
  /\ compiler.errors = <<ErrorAtToken(consumed[1], "Expect expression")>>
  /\ Code(chunk) = <<Return>>

GroupingMessage == "Expect to have ')' at the end of grouping expression"

\* The error consume records when the current token is not the expected
\* one: at that token, or at the end of input when there is none.
UnmetExpectation(current, msg) ==
  IF current = None THEN ErrorAtTheEnd(msg) ELSE ErrorAtToken(current[1], msg)

\* An error of an unclosed grouping is on the list.
UnclosedReported ==
  \E i \in 1..Len(compiler.errors) : compiler.errors[i].msg = GroupingMessage

IsPrefixOf(s, t) == Len(s) <= Len(t) /\ SubSeq(t, 1, Len(s)) = s

\* C23: when the inner expression of a grouping is not followed by `)`,
\* consume records one error at the current token (at the end of input
\* when there is none) unless panic mode is set, and takes no token; the
\* compilation goes on: what was emitted stays in the chunk, nothing
\* panics, and the chunk returned ends with Return.
C23_UnclosedGrouping ==
  /\ [][(/\ status = "compiling"
          /\ Top.fn = "grouping"
          /\ ~(compiler.current # None /\ compiler.current[1].t_type.kind = "RightParen"))
           => /\ compiler'.errors =
                   IF compiler.panic_mode THEN compiler.errors
                   ELSE Append(compiler.errors,
                               UnmetExpectation(compiler.current, GroupingMessage))
              /\ compiler'.panic_mode
              /\ compiler'.current = compiler.current
              /\ compiler'.previous = compiler.previous
              /\ compiler'.scanner = compiler.scanner
              /\ consumed' = consumed
              /\ chunk' = chunk
              /\ status' = "compiling"]_vars
  /\ [][(status = "compiling" /\ UnclosedReported)
           => /\ IsPrefixOf(chunk.instructions, chunk'.instructions)
              /\ status' # "panicked"
              /\ status' = "compiled" => Last(chunk'.instructions).ins = Return]_vars

\* `(1 =` (or the like) was compiled: the error is at the token after the
\* inner expression, which was not consumed, and the chunk is complete.
C23_Witness ==
  /\ status = "compiled"
  /\ Kinds(Toks) = <<"LeftParen", "Number", "Equal">>
  /\ Kinds(consumed) = <<"LeftParen", "Number">>
  /\ compiler.errors = <<ErrorAtToken(Toks[3], GroupingMessage)>>
  /\ compiler.current = Some(Toks[3])
  /\ Code(chunk) = <<C(0), Return>>

(***************************************************************************)
(* Properties of the VM (Spec).                                            *)
(***************************************************************************)
\* C24: every call of VM::interpret, a second one on the same VM included,
\* starts at instruction 0, moves the instruction pointer on by one for
\* each instruction it executes, stops at the first Return or fault, and
\* on a compiled chunk never reads past the end of the instructions or of
\* the constants.
C24_InterpretRunsFromIndexZero ==
  /\ [][(vm_status # "running" /\ vm_status' = "running") => vm'.ip = 0]_vars
  /\ [][(vm_status = "running" /\ vm' # vm) =>
          IF vm.ip < Len(chunk.instructions)
          THEN /\ vm'.ip = vm.ip + 1
               /\ (vm_status' = "Ok") <=>
                    (chunk.instructions[vm.ip + 1].ins.op = "Return")
               /\ vm_status' \in {"running", "Ok", "RuntimeError"}
          ELSE FALSE]_vars
  /\ [](vm_status # "panicked" /\ vm.ip <= Len(chunk.instructions))

(***************************************************************************)
(* Properties of the lines of instructions and of tokens.                  *)
(***************************************************************************)
NumberTokens(toks) == SelectSeq(toks, LAMBDA t : t.t_type.kind = "Number")

\* The consumed token i stands where parse_precedence starts: it is the
\* first, or follows a `(` or a `-` that stands so, or follows an operator
\* that was consumed as an infix operator.
RECURSIVE InPrefixPosition(_)
InPrefixPosition(i) ==
  \/ i = 1
  \/ /\ i > 1
     /\ \/ consumed[i - 1].t_type.kind \in {"LeftParen", "Minus"} /\ InPrefixPosition(i - 1)
        \/ consumed[i - 1].t_type.kind \in BinaryKinds /\ ~InPrefixPosition(i - 1)

\* The unary minus tokens on line l, and the Negate instructions tagged l.
UnaryMinusesOn(l) ==
  {i \in 1..Len(consumed) :
     consumed[i] = Token(TType("Minus"), l) /\ InPrefixPosition(i)}

NegatesOn(l) ==
  {i \in 1..Len(chunk.instructions) : chunk.instructions[i] = InstructionWithLine(Negate, l)}

LinesOfSource == 1..(1 + Newlines(source, Len(source)))

\* C25: a Constant carries the line of its number token, a Negate the line
\* of its `-` token, and a binary instruction the line of the last token
\* consumed when its right operand was parsed.
C25_InstructionLines ==
  /\ [](\A i \in 1..Len(chunk.instructions) :
          chunk.instructions[i].ins.op = "Constant" =>
            chunk.instructions[i].line =
              NumberTokens(Toks)[chunk.instructions[i].ins.arg + 1].line)
  /\ [](status = "compiled" =>
          \A l \in LinesOfSource :
            Cardinality(NegatesOn(l)) = Cardinality(UnaryMinusesOn(l)))
  /\ [][(status = "compiling" /\ Top.fn = "binary") =>
          /\ Len(chunk'.instructions) = Len(chunk.instructions) + 1
          /\ Last(chunk'.instructions).ins \in {Add, Subtract, Multiply, Divide}
          /\ Last(chunk'.instructions).line = Last(consumed).line]_vars

\* A source of four lines, - / 1 / + / 1, was compiled: the constants are
\* on lines 2 and 4, Add on line 4 (its operator is on line 3) and Negate
\* on line 1.
C25_Witness ==
  /\ status = "compiled"
  /\ source = <<"-", "\n", "1", "\n", "+", "\n", "1", "\n">>
  /\ InstructionWithLine(C(0), 2) = chunk.instructions[1]
  /\ InstructionWithLine(C(1), 4) = chunk.instructions[2]
  /\ InstructionWithLine(Add, 4) \in {chunk.instructions[i] : i \in 1..Len(chunk.instructions)}
  /\ InstructionWithLine(Negate, 1) \in {chunk.instructions[i] : i \in 1..Len(chunk.instructions)}

(***************************************************************************)
(* Properties of the equality of tokens.                                   *)
(***************************************************************************)
\* The type of a literal token matches with its payload; every other type
\* matches by its variant.
SameTypeAndPayload(a, b) == TokenType_eq(a.t_type, b.t_type)

\* C26: two tokens are equal if and only if their types match and, for the
\* literal kinds, their payloads match; the line takes no part, so two tokens
\* of the same type on different lines are equal.  Stated of every pair of
\* tokens that the calls of next have returned.
C26_TokenEqualityIgnoresLine ==
  \A i, j \in 1..Len(ReturnedTokens) :
    Token_eq(ReturnedTokens[i], ReturnedTokens[j])
      <=> SameTypeAndPayload(ReturnedTokens[i], ReturnedTokens[j])

====
